---- MODULE Spec2Model ----
(***************************************************************************)
(* A model of the chat front end: the useChat hook (src/hooks/useChat.ts), *)
(* the chart-suggestion normalizer of DataExplorer and the plot builder of *)
(* GraphViewer.                                                            *)
(*                                                                         *)
(* Representation of JavaScript values:                                    *)
(*  - an optional value (undefined / absent property) is None == <<>>,     *)
(*    a present one is Some(v) == <<v>>;                                   *)
(*  - a string the code cuts, trims or searches is a Text: a sequence of   *)
(*    tokens; the three markers of parseUserMessageWithContext and the     *)
(*    whitespace character are tokens of their own, "" is <<>>;            *)
(*  - enumerations (type tags, roles, column names) are TLA+ strings;      *)
(*  - an object is a record whose optional properties hold options.        *)
(***************************************************************************)
EXTENDS Integers, Sequences, FiniteSets, TLC

\* ------------------------------------------------------------------ bounds
\* Entries a run may append to the transcript after the initial greeting.
MaxMsgs == 2
\* Outstanding HTTP requests of sendMessage.
MaxInflight == 1
\* Entries of the TabularResult list that query_result events may build up.
MaxResults == 2
\* Longest text handed to sendMessage in the specification of the parser.
MaxTextLen == 5

\* ----------------------------------------------------------- option values
None == <<>>
Some(x) == <<x>>
IsSome(o) == Len(o) > 0
Get(o) == o[1]

\* ------------------------------------------------------------------- text
WS == " "
displayContextStartMarker == "---DISPLAY_CONTEXT START---"
displayContextEndMarker == "---DISPLAY_CONTEXT END---"
queryStartMarker == "---QUERY START---"

\* String.prototype.indexOf(tok, from): a 0-based offset, -1 when absent.
IndexOf(t, tok, from) ==
  LET hits == {i \in 1..Len(t) : i - 1 >= from /\ t[i] = tok}
  IN IF hits = {} THEN -1
     ELSE (CHOOSE i \in hits : \A j \in hits : i <= j) - 1

\* String.prototype.includes(tok)
Includes(t, tok) == \E i \in 1..Len(t) : t[i] = tok

\* String.prototype.substring(a, b) on 0-based offsets, a <= b <= length.
Substring(t, a, b) == [i \in 1..(b - a) |-> t[a + i]]

\* String.prototype.trim(): leading and trailing whitespace removed.
Trim(t) ==
  LET keep == {i \in 1..Len(t) : t[i] # WS}
  IN IF keep = {} THEN <<>>
     ELSE LET lo == CHOOSE i \in keep : \A j \in keep : i <= j
              hi == CHOOSE i \in keep : \A j \in keep : i >= j
          IN [i \in 1..(hi - lo + 1) |-> t[lo + i - 1]]

\* step.replace(/_/g, ' ')
ReplaceUnderscores(t) == [i \in 1..Len(t) |-> IF t[i] = "_" THEN WS ELSE t[i]]

\* step.endsWith('workflow_end')
EndsWithWorkflowEnd(t) ==
  /\ Len(t) >= 3
  /\ t[Len(t) - 2] = "workflow" /\ t[Len(t) - 1] = "_" /\ t[Len(t)] = "end"

\* JavaScript truthiness of an optional string: present and not "".
Truthy(o) == IsSome(o) /\ Get(o) # <<>>
\* JavaScript truthiness of an optional enumeration string.
TruthyStr(o) == IsSome(o) /\ Get(o) # ""

\* ---------------------------------------------------------------- objects
\* ReadyState of react-use-websocket.
ReadyStates == {"CONNECTING", "OPEN", "CLOSING", "CLOSED", "UNINSTANTIATED"}

\* WebSocketMessage with every optional property absent.
WebSocketMessage(type) ==
  [type |-> type, user_id |-> None, step |-> None, status |-> None,
   details |-> None, reasoning |-> None, insight |-> None,
   report_sections |-> None, graph_suggestions |-> None, message |-> None,
   generated_queries |-> None, objective |-> None, query |-> None,
   data |-> None, error |-> None, content |-> None, platform |-> None,
   executed_queries |-> None]

\* ChatMessage: id, role, content and the optional properties.
ChatMessage(id, role, content) ==
  [id |-> id, role |-> role, content |-> content, reasoning |-> None,
   reportSections |-> None, generatedQueries |-> None, step |-> None]

\* One element of executed_queries.
ExecutedQuery(platform, objective, query, data) ==
  [platform |-> platform, objective |-> objective, query |-> query, data |-> data]

\* BackendGraphSuggestionFormat with every optional property absent.
BackendSuggestion ==
  [objective |-> None, type |-> None, chart_type |-> None, title |-> None,
   description |-> None, columns |-> None, x_axis |-> None, y_axis |-> None,
   names |-> None, values |-> None, color_column |-> None,
   image_base64 |-> None, original_suggestion |-> None,
   data_source_objective |-> None]

\* The columns object of a backend suggestion.
Columns(x, y) == [x |-> x, y |-> y, names |-> None, values |-> None, color |-> None]

\* A y role: one column name, or an array of them.
YStr(s) == [arr |-> FALSE, v |-> <<s>>]
YArr(a) == [arr |-> TRUE, v |-> a]
TruthyY(o) == IsSome(o) /\ (Get(o).arr \/ Get(o).v[1] # "")

\* QueryResult
QueryResult(objective, query, dataframe, error, platform) ==
  [objective |-> objective, query |-> query, dataframe |-> dataframe,
   error |-> error, platform |-> platform]

\* Two results share the (objective, query, platform) triple.
SameTriple(a, b) ==
  a.objective = b.objective /\ a.query = b.query /\ a.platform = b.platform

\* ------------------------------------------------------------------ state
VARIABLES
  readyState,        \* ReadyState of the channel
  userId,            \* session identifier: None or Some(id)
  messages,          \* transcript: sequence of ChatMessage
  queryResults,      \* TabularResult list: sequence of QueryResult
  currentStatus,     \* transient status string: None or Some(Text)
  isProcessing,      \* processing flag
  graphSuggestions,  \* ChartSuggestion list
  lastJsonMessage,   \* last event the channel delivered: None or Some(event)
  effectPending,     \* the message effect has not yet run on lastJsonMessage
  inflight,          \* chat HTTP requests issued and not yet answered
  currentTableIndex, \* DataExplorer: index of the table shown
  currentGraphIndex, \* DataExplorer: index of the suggestion shown
  op,                \* observer: the operation that produced this state
  pre                \* observer: the hook's state before that operation

hookVars == <<readyState, userId, messages, queryResults, currentStatus,
              isProcessing, graphSuggestions, lastJsonMessage, effectPending,
              inflight>>
vars == <<readyState, userId, messages, queryResults, currentStatus,
          isProcessing, graphSuggestions, lastJsonMessage, effectPending,
          inflight, currentTableIndex, currentGraphIndex, op, pre>>

\* The observable state of the hook, as recorded in pre.
Snapshot ==
  [readyState |-> readyState, userId |-> userId, messages |-> messages,
   queryResults |-> queryResults, currentStatus |-> currentStatus,
   isProcessing |-> isProcessing, graphSuggestions |-> graphSuggestions,
   inflight |-> inflight, currentTableIndex |-> currentTableIndex,
   currentGraphIndex |-> currentGraphIndex]

Observe(kind, arg) == op' = [kind |-> kind, arg |-> arg] /\ pre' = Snapshot

\* generateId(): a fresh identifier; the n-th entry ever created gets n.
generateId(prev) == Len(prev) + 1

initMessage ==
  [ChatMessage(1, "system", <<"Hello! I am your Insight Assistant.">>)
     EXCEPT !.id = 1]

Init ==
  /\ readyState \in {"CONNECTING", "UNINSTANTIATED"}
  /\ userId = None
  /\ messages = <<initMessage>>
  /\ queryResults = <<>>
  /\ currentStatus = None
  /\ isProcessing = FALSE
  /\ graphSuggestions = <<>>
  /\ lastJsonMessage = None
  /\ effectPending = FALSE
  /\ inflight = <<>>
  /\ currentTableIndex = 0
  /\ currentGraphIndex = 0
  /\ op = [kind |-> "init", arg |-> None]
  /\ pre = [readyState |-> readyState, userId |-> None,
            messages |-> <<initMessage>>, queryResults |-> <<>>,
            currentStatus |-> None, isProcessing |-> FALSE,
            graphSuggestions |-> <<>>, inflight |-> <<>>,
            currentTableIndex |-> 0, currentGraphIndex |-> 0]

\* addMessageToChat(role, content, additionalFields) on transcript prev.
addMessageToChat(prev, role, content, reasoning, reportSections, step) ==
  Append(prev, [ChatMessage(generateId(prev), role, content)
                  EXCEPT !.reasoning = reasoning,
                         !.reportSections = reportSections,
                         !.step = step])

\* The transcript has room for n more entries.
Room(n) == Len(messages) + n <= 1 + MaxMsgs

\* ------------------------------------------------------ channel callbacks
\* onOpen: the channel reached OPEN.
OnOpen ==
  /\ readyState = "CONNECTING"
  /\ readyState' = "OPEN"
  /\ currentStatus' = None
  /\ isProcessing' = FALSE
  /\ UNCHANGED <<userId, messages, queryResults, graphSuggestions,
                 lastJsonMessage, effectPending, inflight>>
  /\ Observe("onOpen", None)

\* Mutant of OnClose: the close leaves processing as it was.
OnClose_KeepsProcessing ==
  /\ readyState \in {"CONNECTING", "OPEN"}
  /\ readyState' = "CLOSED"
  /\ userId' = None
  /\ currentStatus' = Some(<<"Connection closed.">>)
  /\ UNCHANGED <<messages, queryResults, isProcessing, graphSuggestions,
                 lastJsonMessage, effectPending, inflight>>
  /\ Observe("onClose", None)

\* onClose: the channel closed.
OnClose ==
  /\ readyState \in {"CONNECTING", "OPEN"}
  /\ readyState' = "CLOSED"
  /\ userId' = None
  /\ currentStatus' = Some(<<"Connection closed.">>)
  /\ isProcessing' = FALSE
  /\ UNCHANGED <<messages, queryResults, graphSuggestions, lastJsonMessage,
                 effectPending, inflight>>
  /\ Observe("onClose", None)

\* onError: the channel reported an error (the close that follows is OnClose).
OnError ==
  /\ readyState \in {"CONNECTING", "OPEN"}
  /\ userId' = None
  /\ currentStatus' = Some(<<"Connection error.">>)
  /\ isProcessing' = FALSE
  /\ UNCHANGED <<readyState, messages, queryResults, graphSuggestions,
                 lastJsonMessage, effectPending, inflight>>
  /\ Observe("onError", None)

\* shouldReconnect: () => true: a closed channel is opened again.
Reconnect ==
  /\ readyState = "CLOSED"
  /\ readyState' = "CONNECTING"
  /\ UNCHANGED <<userId, messages, queryResults, currentStatus, isProcessing,
                 graphSuggestions, lastJsonMessage, effectPending, inflight>>
  /\ Observe("reconnect", None)

\* The channel delivers event ev: lastJsonMessage changes and the message
\* effect is scheduled.
Deliver(ev) ==
  /\ readyState = "OPEN"
  /\ lastJsonMessage' = Some(ev)
  /\ effectPending' = TRUE
  /\ UNCHANGED <<readyState, userId, messages, queryResults, currentStatus,
                 isProcessing, graphSuggestions, inflight>>
  /\ Observe("deliver", Some(ev))

\* --------------------------------------------------------- bulk results
\* The forEach of handleExecutedQueries from index i (1-based here) on: one
\* QueryResult per element whose data is truthy, the others skipped.
RECURSIVE newQueryResults(_, _)
newQueryResults(executedQueries, i) ==
  IF i > Len(executedQueries) THEN <<>>
  ELSE LET executedQuery == executedQueries[i]
           built ==
             QueryResult(
               IF Truthy(executedQuery.objective)
                 THEN Get(executedQuery.objective)
                 ELSE <<"Executed Query ", ToString(i)>>,
               IF TruthyStr(executedQuery.query)
                 THEN Get(executedQuery.query) ELSE "N/A",
               Get(executedQuery.data),
               None,
               executedQuery.platform)
       IN (IF IsSome(executedQuery.data) THEN <<built>> ELSE <<>>)
            \o newQueryResults(executedQueries, i + 1)

\* Mutant of handleExecutedQueries: the built results are merged into the list.
handleExecutedQueries_Merge(executedQueries, prev) ==
  IF IsSome(executedQueries)
    THEN prev \o newQueryResults(Get(executedQueries), 1)
    ELSE prev

\* handleExecutedQueries: the TabularResult list afterwards, given the list
\* before; its boolean result is IsSome(executedQueries).
handleExecutedQueries(executedQueries, prev) ==
  IF IsSome(executedQueries)
    THEN newQueryResults(Get(executedQueries), 1)
    ELSE prev

\* ----------------------------------------------------- chart suggestions
\* Mutant of mappedSuggestion: columns.x is not carried over to x_axis.
mappedSuggestion_DropsX(bs) ==
  [objective |-> IF Truthy(bs.objective) THEN bs.objective
                 ELSE Some(<<"Unknown Objective">>),
   type |-> bs.type, chart_type |-> bs.chart_type, title |-> bs.title,
   description |-> bs.description,
   x_axis |-> bs.x_axis,
   y_axis |-> IF IsSome(bs.columns) /\ TruthyY(Get(bs.columns).y)
                THEN Get(bs.columns).y ELSE bs.y_axis,
   names |-> bs.names, values |-> bs.values, color_column |-> bs.color_column,
   image_base64 |-> bs.image_base64,
   original_suggestion |-> bs.original_suggestion,
   data_source_objective |-> bs.data_source_objective]

\* Mutant of mappedSuggestion: a missing objective is left missing.
mappedSuggestion_NoDefault(bs) ==
  [objective |-> bs.objective,
   type |-> bs.type, chart_type |-> bs.chart_type, title |-> bs.title,
   description |-> bs.description,
   x_axis |-> IF IsSome(bs.columns) /\ TruthyStr(Get(bs.columns).x)
                THEN Get(bs.columns).x ELSE bs.x_axis,
   y_axis |-> IF IsSome(bs.columns) /\ TruthyY(Get(bs.columns).y)
                THEN Get(bs.columns).y ELSE bs.y_axis,
   names |-> bs.names, values |-> bs.values, color_column |-> bs.color_column,
   image_base64 |-> bs.image_base64,
   original_suggestion |-> bs.original_suggestion,
   data_source_objective |-> bs.data_source_objective]

\* The map callback of handleGraphSuggestions: columns is destructured away,
\* objective defaults, and columns.x / columns.y become x_axis / y_axis.
mappedSuggestion(bs) ==
  [objective |-> IF Truthy(bs.objective) THEN bs.objective
                 ELSE Some(<<"Unknown Objective">>),
   type |-> bs.type, chart_type |-> bs.chart_type, title |-> bs.title,
   description |-> bs.description,
   x_axis |-> IF IsSome(bs.columns) /\ TruthyStr(Get(bs.columns).x)
                THEN Get(bs.columns).x ELSE bs.x_axis,
   y_axis |-> IF IsSome(bs.columns) /\ TruthyY(Get(bs.columns).y)
                THEN Get(bs.columns).y ELSE bs.y_axis,
   names |-> bs.names, values |-> bs.values, color_column |-> bs.color_column,
   image_base64 |-> bs.image_base64,
   original_suggestion |-> bs.original_suggestion,
   data_source_objective |-> bs.data_source_objective]

\* handleGraphSuggestions: the ChartSuggestion list afterwards.
handleGraphSuggestions(backendSuggestions) ==
  IF IsSome(backendSuggestions) /\ Len(Get(backendSuggestions)) > 0
    THEN [i \in 1..Len(Get(backendSuggestions)) |->
            mappedSuggestion(Get(backendSuggestions)[i])]
    ELSE <<>>

\* The suggestion handed to the viewer, every property absent.
ViewerSuggestion ==
  [type |-> None, title |-> None, description |-> None, columns |-> None,
   objective |-> None, image_base64 |-> None, original_suggestion |-> None,
   data_source_objective |-> None]

\* The empty columns object.
NoColumns ==
  [x |-> None, y |-> None, names |-> None, values |-> None, color |-> None]

\* Mutant of finalGraphSuggestionForViewer: the raw type wins over chart_type.
finalGraphSuggestionForViewer_RawTypeWins(currentRawGraphSuggestion) ==
  IF ~IsSome(currentRawGraphSuggestion) THEN None
  ELSE
    LET sourceForPlotly == Get(currentRawGraphSuggestion)
        type == IF IsSome(sourceForPlotly.type)
                  THEN sourceForPlotly.type ELSE sourceForPlotly.chart_type
        columns == [x |-> sourceForPlotly.x_axis,
                    y |-> sourceForPlotly.y_axis,
                    names |-> sourceForPlotly.names,
                    values |-> sourceForPlotly.values,
                    color |-> sourceForPlotly.color_column]
    IN IF sourceForPlotly.type = Some("image")
         THEN Some([ViewerSuggestion EXCEPT
                      !.type = Some("image"),
                      !.title = sourceForPlotly.title,
                      !.description = sourceForPlotly.description,
                      !.image_base64 = sourceForPlotly.image_base64,
                      !.original_suggestion = sourceForPlotly.original_suggestion])
       ELSE IF type = Some("none")
         THEN Some([ViewerSuggestion EXCEPT
                      !.type = Some("none"),
                      !.title = sourceForPlotly.title,
                      !.columns = Some(NoColumns)])
       ELSE IF type = Some("image") THEN None
       ELSE Some([ViewerSuggestion EXCEPT
                    !.type = type,
                    !.title = sourceForPlotly.title,
                    !.description = sourceForPlotly.description,
                    !.columns = Some(columns),
                    !.objective = sourceForPlotly.objective,
                    !.image_base64 = sourceForPlotly.image_base64,
                    !.original_suggestion = sourceForPlotly.original_suggestion,
                    !.data_source_objective = sourceForPlotly.data_source_objective])

\* finalGraphSuggestionForViewer of DataExplorer: null without a suggestion;
\* the image variant is passed through; otherwise chart_type wins over type,
\* the flat roles that are present are copied under columns, 'none' keeps the
\* title only and a transformed 'image' gives null.
finalGraphSuggestionForViewer(currentRawGraphSuggestion) ==
  IF ~IsSome(currentRawGraphSuggestion) THEN None
  ELSE
    LET sourceForPlotly == Get(currentRawGraphSuggestion)
        type == IF IsSome(sourceForPlotly.chart_type)
                  THEN sourceForPlotly.chart_type ELSE sourceForPlotly.type
        columns == [x |-> sourceForPlotly.x_axis,
                    y |-> sourceForPlotly.y_axis,
                    names |-> sourceForPlotly.names,
                    values |-> sourceForPlotly.values,
                    color |-> sourceForPlotly.color_column]
    IN IF sourceForPlotly.type = Some("image")
         THEN Some([ViewerSuggestion EXCEPT
                      !.type = Some("image"),
                      !.title = sourceForPlotly.title,
                      !.description = sourceForPlotly.description,
                      !.image_base64 = sourceForPlotly.image_base64,
                      !.original_suggestion = sourceForPlotly.original_suggestion])
       ELSE IF type = Some("none")
         THEN Some([ViewerSuggestion EXCEPT
                      !.type = Some("none"),
                      !.title = sourceForPlotly.title,
                      !.columns = Some(NoColumns)])
       ELSE IF type = Some("image") THEN None
       ELSE Some([ViewerSuggestion EXCEPT
                    !.type = type,
                    !.title = sourceForPlotly.title,
                    !.description = sourceForPlotly.description,
                    !.columns = Some(columns),
                    !.objective = sourceForPlotly.objective,
                    !.image_base64 = sourceForPlotly.image_base64,
                    !.original_suggestion = sourceForPlotly.original_suggestion,
                    !.data_source_objective = sourceForPlotly.data_source_objective])

\* ------------------------------------------------------ the graph view
\* The cells of a data row: numbers and strings.
Num(n) == [kind |-> "number", n |-> n, s |-> ""]
Str(s) == [kind |-> "string", n |-> 0, s |-> s]
\* data[0]?.[col] as a condition: the first row has the column and its value
\* is truthy (not 0, not the empty string).
TruthyCell(row, col) ==
  /\ col \in DOMAIN row
  /\ IF row[col].kind = "number" THEN row[col].n # 0 ELSE row[col].s # ""
\* row[col] of data.map(row => row[col]): None stands for undefined.
Cell(row, col) == IF col \in DOMAIN row THEN Some(row[col]) ELSE None

\* a.includes(b) on texts: b occurs in a as a run of tokens.
TextIncludes(a, b) ==
  \E i \in 0..(Len(a) - Len(b)) : \A j \in 1..Len(b) : a[i + j] = b[j]

\* Mutant of Find: the last of the results that satisfy pred.
Find_Last(results, hits) ==
  IF hits = {} THEN None
  ELSE Some(results[CHOOSE i \in hits : \A j \in hits : i >= j])

\* queryResults.find(pred): the first of the results at the positions hits,
\* which are those that satisfy pred, or None.
Find(results, hits) ==
  IF hits = {} THEN None
  ELSE Some(results[CHOOSE i \in hits : \A j \in hits : i <= j])

\* objectiveToMatch of dataSourceForCurrentGraph: for an image suggestion the
\* data_source_objective of its original_suggestion, for any other its
\* objective || data_source_objective; None stands for undefined.
objectiveToMatch(raw) ==
  IF raw.type = Some("image")
    THEN (IF IsSome(raw.original_suggestion)
            THEN Get(raw.original_suggestion).data_source_objective
            ELSE None)
    ELSE (IF Truthy(raw.objective) THEN raw.objective
          ELSE raw.data_source_objective)

\* dataSourceForCurrentGraph of DataExplorer: the QueryResult a suggestion is
\* matched to, None standing for undefined.
dataSourceForCurrentGraph(currentRawGraphSuggestion, results) ==
  IF ~IsSome(currentRawGraphSuggestion) THEN None
  ELSE
    LET raw == Get(currentRawGraphSuggestion)
        first == IF Len(results) > 0 THEN Some(results[1]) ELSE None
        title == IF IsSome(raw.title) THEN Get(raw.title) ELSE <<>>
        byTitle(qr) ==
          /\ qr.objective # <<>>
          /\ \/ IsSome(raw.title) /\ TextIncludes(Get(raw.title), qr.objective)
             \/ TextIncludes(qr.objective, title)
        byObjective(qr) ==
          /\ qr.objective # <<>>
          /\ TextIncludes(qr.objective, Get(objectiveToMatch(raw)))
        titleHits == {i \in 1..Len(results) : byTitle(results[i])}
        objectiveHits == {i \in 1..Len(results) : byObjective(results[i])}
    IN IF ~Truthy(objectiveToMatch(raw))
         THEN (IF IsSome(Find(results, titleHits)) THEN Find(results, titleHits)
               ELSE first)
       ELSE IF IsSome(Find(results, objectiveHits))
         THEN Find(results, objectiveHits)
       ELSE first

\* The column a role of the viewer's suggestion names, if it names one.
Role(columns, role) == IF IsSome(columns) THEN Get(columns)[role] ELSE None

\* Mutant of plotParams: a pie needs its names column only.
plotParams_PieNamesOnly(result, graphSuggestion) ==
  IF \/ ~IsSome(graphSuggestion)
     \/ ~TruthyStr(Get(graphSuggestion).type)
     \/ Get(graphSuggestion).type \in {Some("image"), Some("none")}
    THEN None
  ELSE
    LET type == Get(Get(graphSuggestion).type)
        columns == Get(graphSuggestion).columns
        data == IF IsSome(result) THEN Get(result).dataframe ELSE <<>>
        nameCol == Role(columns, "names")
        valCol == Role(columns, "values")
        series(col) == [i \in 1..Len(data) |-> Cell(data[i], col)]
    IN IF Len(data) = 0 THEN None
       ELSE IF type = "pie"
         THEN IF ~TruthyStr(nameCol) \/ ~TruthyCell(data[1], Get(nameCol))
                THEN None
                ELSE Some([type |-> type,
                           x |-> series(Get(nameCol)),
                           y |-> IF IsSome(valCol) THEN series(Get(valCol))
                                 ELSE <<>>])
       ELSE None

\* plotParams of GraphViewer: None when no plot is produced, otherwise the
\* trace: its type and the two series read from the rows, column by column.
plotParams(result, graphSuggestion) ==
  IF \/ ~IsSome(graphSuggestion)
     \/ ~TruthyStr(Get(graphSuggestion).type)
     \/ Get(graphSuggestion).type \in {Some("image"), Some("none")}
    THEN None
  ELSE
    LET type == Get(Get(graphSuggestion).type)
        columns == Get(graphSuggestion).columns
        data == IF IsSome(result) THEN Get(result).dataframe ELSE <<>>
        xCol == Role(columns, "x")
        yCol == Role(columns, "y")
        nameCol == Role(columns, "names")
        valCol == Role(columns, "values")
        yColString ==
          IF ~IsSome(yCol) THEN None
          ELSE IF Get(yCol).arr
            THEN (IF Len(Get(yCol).v) > 0 THEN Some(Get(yCol).v[1]) ELSE None)
          ELSE Some(Get(yCol).v[1])
        series(col) == [i \in 1..Len(data) |-> Cell(data[i], col)]
    IN IF Len(data) = 0 THEN None
       ELSE IF type \in {"bar", "line", "scatter"}
         THEN IF \/ ~TruthyStr(xCol) \/ ~TruthyStr(yColString)
                 \/ ~TruthyCell(data[1], Get(xCol))
                 \/ ~TruthyCell(data[1], Get(yColString))
                THEN None
                ELSE Some([type |-> type,
                           x |-> series(Get(xCol)),
                           y |-> series(Get(yColString))])
       ELSE IF type = "pie"
         THEN IF \/ ~TruthyStr(nameCol) \/ ~TruthyStr(valCol)
                 \/ ~TruthyCell(data[1], Get(nameCol))
                 \/ ~TruthyCell(data[1], Get(valCol))
                THEN None
                ELSE Some([type |-> type,
                           x |-> series(Get(nameCol)),
                           y |-> series(Get(valCol))])
       ELSE None

\* The content GraphViewer renders: "placeholder", "error", "image", "plot",
\* "none", "unavailable" (the data is unavailable or not in a recognised
\* format), "unrecognized" or "noData".
viewerContent(result, graphSuggestion, processing, isInitialStateProp) ==
  LET hasPlotlyData ==
        /\ IsSome(plotParams(result, graphSuggestion))
        /\ Get(graphSuggestion).type # Some("image")
      type == Get(graphSuggestion).type
  IN IF isInitialStateProp /\ ~IsSome(graphSuggestion) /\ ~processing
       THEN "placeholder"
     ELSE IF processing /\ ~IsSome(graphSuggestion) THEN "placeholder"
     ELSE IF IsSome(result) /\ Truthy(Get(result).error) THEN "error"
     ELSE IF IsSome(graphSuggestion)
       THEN IF type = Some("image") THEN "image"
            ELSE IF TruthyStr(type) /\ type # Some("none") /\ hasPlotlyData
              THEN "plot"
            ELSE IF type = Some("none") THEN "none"
            ELSE IF TruthyStr(type) /\ ~hasPlotlyData /\ ~processing
              THEN "unavailable"
            ELSE IF processing THEN "placeholder"
            ELSE "unrecognized"
     ELSE IF processing THEN "placeholder"
     ELSE "noData"

\* renderGraph of DataExplorer for the suggestion at index i (1-based): the
\* empty card when nothing was ever received, otherwise what GraphViewer
\* renders for the suggestion and the result it is matched to.
renderGraph(i) ==
  LET raw == IF Len(graphSuggestions) > 0 THEN Some(graphSuggestions[i]) ELSE None
      final == finalGraphSuggestionForViewer(raw)
      isInitialState ==
        ~isProcessing /\ Len(queryResults) = 0 /\ Len(graphSuggestions) = 0
  IN IF isInitialState THEN "noGraph"
     ELSE viewerContent(dataSourceForCurrentGraph(raw, queryResults), final,
                        isProcessing, ~isProcessing /\ ~IsSome(final))

\* ------------------------------------------------- the explorer's indices
\* Mutant of clamp: an index past the end is set to the length of the list.
clamp_ToLength(index, total) ==
  IF total = 0 THEN 0
  ELSE IF index >= total THEN total
  ELSE index

\* One index of the clamp effect of DataExplorer: reset with an empty list,
\* set to Math.max(0, total - 1) when it is past the end, else left alone.
clamp(index, total) ==
  IF total = 0 THEN 0
  ELSE IF index >= total THEN (IF 0 >= total - 1 THEN 0 ELSE total - 1)
  ELSE index

\* The clamp effect, run after the render that follows an operation: it reads
\* the lists as the operation left them.
ClampEffect ==
  /\ currentTableIndex' = clamp(currentTableIndex, Len(queryResults'))
  /\ currentGraphIndex' = clamp(currentGraphIndex, Len(graphSuggestions'))

\* Mutant of nextIndex: the index is not capped.
nextIndex_NoCap(prev, total) == prev + 1

\* The updater of handleNextTable and handleNextGraph: Math.min of prev + 1
\* and the last position.
nextIndex(prev, total) ==
  LET last == IF total > 0 THEN total - 1 ELSE 0
  IN  IF prev + 1 <= last THEN prev + 1 ELSE last

\* The updater of handlePrevTable and handlePrevGraph: Math.max(prev - 1, 0).
prevIndex(prev) == IF prev - 1 >= 0 THEN prev - 1 ELSE 0

\* A click on one of the four pagination buttons, and the clamp effect that
\* runs after the render it causes.
handleNextTable ==
  /\ currentTableIndex' =
       clamp(nextIndex(currentTableIndex, Len(queryResults)), Len(queryResults))
  /\ UNCHANGED <<hookVars, currentGraphIndex>>
  /\ op' = [kind |-> "nextTable", arg |-> None] /\ pre' = Snapshot
handlePrevTable ==
  /\ currentTableIndex' = clamp(prevIndex(currentTableIndex), Len(queryResults))
  /\ UNCHANGED <<hookVars, currentGraphIndex>>
  /\ op' = [kind |-> "prevTable", arg |-> None] /\ pre' = Snapshot
handleNextGraph ==
  /\ currentGraphIndex' =
       clamp(nextIndex(currentGraphIndex, Len(graphSuggestions)),
             Len(graphSuggestions))
  /\ UNCHANGED <<hookVars, currentTableIndex>>
  /\ op' = [kind |-> "nextGraph", arg |-> None] /\ pre' = Snapshot
handlePrevGraph ==
  /\ currentGraphIndex' =
       clamp(prevIndex(currentGraphIndex), Len(graphSuggestions))
  /\ UNCHANGED <<hookVars, currentTableIndex>>
  /\ op' = [kind |-> "prevGraph", arg |-> None] /\ pre' = Snapshot

\* ------------------------------------------------- the message effect
\* case 'connection_established'
FoldConnectionEstablished(ev) ==
  /\ userId' = IF Truthy(ev.user_id) THEN ev.user_id ELSE userId
  /\ UNCHANGED <<messages, queryResults, currentStatus, isProcessing,
                 graphSuggestions>>

\* `${step?.replace(/_/g, ' ')}` inside a template string.
Shown(o) == IF IsSome(o) THEN ReplaceUnderscores(Get(o)) ELSE <<"undefined">>

statusText(ev) ==
  <<"**">> \o Shown(ev.step) \o <<"**: ">> \o Shown(ev.status)
    \o (IF Truthy(ev.details) THEN <<" - ">> \o Get(ev.details) ELSE <<>>)

\* step?.includes(word)
StepIncludes(ev, word) == IsSome(ev.step) /\ Includes(Get(ev.step), word)

\* The milestone entry of a completed step ("done: " stands for the check mark).
milestoneEntry(ev, prev) ==
  LET generation == /\ StepIncludes(ev, "generate") /\ StepIncludes(ev, "queries")
                    /\ IsSome(ev.generated_queries)
      queryCount == Len(Get(ev.generated_queries))
      milestoneContent ==
        IF generation
          THEN <<"done: Query Generation Finished (", ToString(queryCount), " ",
                 IF queryCount = 1 THEN "query" ELSE "queries", ")">>
        ELSE IF StepIncludes(ev, "execute") /\ StepIncludes(ev, "queries")
          THEN <<"done: Query Execution Finished">>
        ELSE IF StepIncludes(ev, "classification")
          THEN <<"done: Classification Finished">>
        ELSE <<"done: ">> \o Shown(ev.step) \o <<" Finished">>
  IN [ChatMessage(generateId(prev), "milestone", milestoneContent)
        EXCEPT !.step = ev.step,
               !.generatedQueries =
                  IF generation THEN ev.generated_queries ELSE None]

\* Mutant of FoldStatus: any completed step ends the turn.
FoldStatus_EndsOnCompleted(ev) ==
  LET end == IsSome(ev.step) /\ EndsWithWorkflowEnd(Get(ev.step))
      milestone == /\ ~end
                   /\ ev.status = Some(<<"completed">>)
                   /\ \/ StepIncludes(ev, "generate")
                      \/ StepIncludes(ev, "execute")
                      \/ StepIncludes(ev, "classification")
  IN /\ milestone => Room(1)
     /\ currentStatus' = IF end THEN None ELSE Some(statusText(ev))
     /\ isProcessing' = IF end \/ ev.status = Some(<<"completed">>)
                          THEN FALSE ELSE isProcessing
     /\ messages' = IF milestone
                      THEN Append(messages, milestoneEntry(ev, messages))
                      ELSE messages
     /\ UNCHANGED <<userId, queryResults, graphSuggestions>>

\* Mutant of FoldStatus: a milestone only for the steps whose name also
\* holds "queries", or holds "classification".
FoldStatus_NeedsQueries(ev) ==
  LET end == IsSome(ev.step) /\ EndsWithWorkflowEnd(Get(ev.step))
      milestone == /\ ~end
                   /\ ev.status = Some(<<"completed">>)
                   /\ \/ StepIncludes(ev, "generate") /\ StepIncludes(ev, "queries")
                      \/ StepIncludes(ev, "execute") /\ StepIncludes(ev, "queries")
                      \/ StepIncludes(ev, "classification")
  IN /\ milestone => Room(1)
     /\ currentStatus' = IF end THEN None ELSE Some(statusText(ev))
     /\ isProcessing' = IF end THEN FALSE ELSE isProcessing
     /\ messages' = IF milestone
                      THEN Append(messages, milestoneEntry(ev, messages))
                      ELSE messages
     /\ UNCHANGED <<userId, queryResults, graphSuggestions>>

\* case 'status'
FoldStatus(ev) ==
  LET end == IsSome(ev.step) /\ EndsWithWorkflowEnd(Get(ev.step))
      milestone == /\ ~end
                   /\ ev.status = Some(<<"completed">>)
                   /\ \/ StepIncludes(ev, "generate")
                      \/ StepIncludes(ev, "execute")
                      \/ StepIncludes(ev, "classification")
  IN /\ milestone => Room(1)
     /\ currentStatus' = IF end THEN None ELSE Some(statusText(ev))
     /\ isProcessing' = IF end THEN FALSE ELSE isProcessing
     /\ messages' = IF milestone
                      THEN Append(messages, milestoneEntry(ev, messages))
                      ELSE messages
     /\ UNCHANGED <<userId, queryResults, graphSuggestions>>

\* Mutant of ValidContent: the content is not trimmed before the test.
ValidContent_NoTrim(ev) == IsSome(ev.content) /\ Get(ev.content) # <<>>

\* typeof content === 'string' && content.trim() !== ''
ValidContent(ev) == IsSome(ev.content) /\ Trim(Get(ev.content)) # <<>>

\* Mutant of FoldClassifierInfo: the event also ends the turn.
FoldClassifierInfo_EndsTurn(ev) ==
  /\ ValidContent(ev) => Room(1)
  /\ messages' = IF ValidContent(ev)
                   THEN addMessageToChat(messages, "assistant", Get(ev.content),
                                         None, None, None)
                   ELSE messages
  /\ currentStatus' = IF ValidContent(ev)
                        THEN Some(<<"Planning workflow...">>)
                        ELSE currentStatus
  /\ isProcessing' = FALSE
  /\ UNCHANGED <<userId, queryResults, graphSuggestions>>

\* case 'classifier_info'
FoldClassifierInfo(ev) ==
  /\ ValidContent(ev) => Room(1)
  /\ messages' = IF ValidContent(ev)
                   THEN addMessageToChat(messages, "assistant", Get(ev.content),
                                         None, None, None)
                   ELSE messages
  /\ currentStatus' = IF ValidContent(ev)
                        THEN Some(<<"Planning workflow...">>)
                        ELSE currentStatus
  /\ UNCHANGED <<userId, queryResults, isProcessing, graphSuggestions>>

\* case 'classifier_answer'
FoldClassifierAnswer(ev) ==
  /\ ValidContent(ev) => Room(1)
  /\ messages' = IF ValidContent(ev)
                   THEN addMessageToChat(messages, "assistant", Get(ev.content),
                                         None, None, None)
                   ELSE messages
  /\ currentStatus' = None
  /\ isProcessing' = FALSE
  /\ UNCHANGED <<userId, queryResults, graphSuggestions>>

\* Mutant of lastMilestoneIndex: the last milestone entry, whatever its step.
lastMilestoneIndex_AnyStep(prev, step) ==
  LET hits == {i \in 1..Len(prev) : prev[i].role = "milestone"}
  IN IF hits = {} THEN 0 ELSE CHOOSE i \in hits : \A j \in hits : i >= j

\* Mutant of lastMilestoneIndex: the first milestone entry of the step.
lastMilestoneIndex_First(prev, step) ==
  LET hits == {i \in 1..Len(prev) :
                 prev[i].role = "milestone" /\ prev[i].step = step}
  IN IF hits = {} THEN 0 ELSE CHOOSE i \in hits : \A j \in hits : i <= j

\* prev.findLastIndex(m => m.role === 'milestone' && m.step === step): 1-based,
\* 0 when there is none.
lastMilestoneIndex(prev, step) ==
  LET hits == {i \in 1..Len(prev) :
                 prev[i].role = "milestone" /\ prev[i].step = step}
  IN IF hits = {} THEN 0 ELSE CHOOSE i \in hits : \A j \in hits : i >= j

\* Mutant of FoldReasoningSummary: the reasoning replaces the content of the
\* milestone entry.
FoldReasoningSummary_RewritesContent(ev) ==
  LET idx == lastMilestoneIndex(messages, ev.step)
      reasoningText == <<"**Reasoning:** ">> \o Get(ev.reasoning)
  IN /\ messages' =
          IF Truthy(ev.step) /\ Truthy(ev.reasoning) /\ idx # 0
            THEN [messages EXCEPT ![idx].content = reasoningText]
            ELSE messages
     /\ UNCHANGED <<userId, queryResults, currentStatus, isProcessing,
                    graphSuggestions>>

\* case 'reasoning_summary'
FoldReasoningSummary(ev) ==
  LET idx == lastMilestoneIndex(messages, ev.step)
      reasoningText == <<"**Reasoning:** ">> \o Get(ev.reasoning)
  IN /\ messages' =
          IF Truthy(ev.step) /\ Truthy(ev.reasoning) /\ idx # 0
            THEN [messages EXCEPT ![idx].reasoning = Some(reasoningText)]
            ELSE messages
     /\ UNCHANGED <<userId, queryResults, currentStatus, isProcessing,
                    graphSuggestions>>

\* reasoning ? '**Final Reasoning:** ' + reasoning : undefined
finalReasoning(ev) ==
  IF Truthy(ev.reasoning)
    THEN Some(<<"**Final Reasoning:** ">> \o Get(ev.reasoning))
    ELSE None

\* Mutant of FoldFinalInsight: without executed_queries the list is cleared, as
\* final_recommendation does.
FoldFinalInsight_Clears(ev) ==
  /\ Room(1)
  /\ messages' = addMessageToChat(messages, "assistant",
        IF Truthy(ev.insight) THEN Get(ev.insight)
        ELSE <<"No final insight received.">>,
        finalReasoning(ev), None, ev.step)
  /\ queryResults' = handleExecutedQueries(ev.executed_queries, <<>>)
  /\ graphSuggestions' = handleGraphSuggestions(ev.graph_suggestions)
  /\ currentStatus' = None
  /\ isProcessing' = FALSE
  /\ UNCHANGED userId

\* Mutant of FoldFinalInsight: the suggestions of the event are added to the
\* list.
FoldFinalInsight_AddsSuggestions(ev) ==
  LET insightContent == IF Truthy(ev.insight) THEN Get(ev.insight)
                        ELSE <<"No final insight received.">>
  IN /\ Room(1)
     /\ messages' = addMessageToChat(messages, "assistant", insightContent,
                                     finalReasoning(ev), None, ev.step)
     /\ queryResults' = handleExecutedQueries(ev.executed_queries, queryResults)
     /\ graphSuggestions' =
          graphSuggestions \o handleGraphSuggestions(ev.graph_suggestions)
     /\ currentStatus' = None
     /\ isProcessing' = FALSE
     /\ UNCHANGED userId

\* case 'final_insight'
FoldFinalInsight(ev) ==
  LET insightContent == IF Truthy(ev.insight) THEN Get(ev.insight)
                        ELSE <<"No final insight received.">>
  IN /\ Room(1)
     /\ messages' = addMessageToChat(messages, "assistant", insightContent,
                                     finalReasoning(ev), None, ev.step)
     /\ queryResults' = handleExecutedQueries(ev.executed_queries, queryResults)
     /\ graphSuggestions' = handleGraphSuggestions(ev.graph_suggestions)
     /\ currentStatus' = None
     /\ isProcessing' = FALSE
     /\ UNCHANGED userId

\* Mutant of FoldFinalRecommendation: without executed_queries the results
\* are kept, as final_insight does.
FoldFinalRecommendation_KeepsResults(ev) ==
  LET reportSections == ev.report_sections
  IN /\ Room(1)
     /\ messages' = addMessageToChat(messages, "assistant",
                                     <<"Optimization report received.">>,
                                     finalReasoning(ev), reportSections, ev.step)
     /\ queryResults' = handleExecutedQueries(ev.executed_queries, queryResults)
     /\ graphSuggestions' = handleGraphSuggestions(ev.graph_suggestions)
     /\ currentStatus' = None
     /\ isProcessing' = FALSE
     /\ UNCHANGED userId

\* case 'final_recommendation'.  The first setGraphSuggestions(raw list) is
\* overwritten in the same batch by handleGraphSuggestions; setQueryResults([])
\* runs only when handleExecutedQueries returned false.
FoldFinalRecommendation(ev) ==
  LET reportSections == ev.report_sections
      content ==
        IF IsSome(reportSections)
          THEN <<"Optimization report generated with ",
                 ToString(Len(Get(reportSections))), " sections.">>
          ELSE <<"Optimization report received.">>
  IN /\ Room(1)
     /\ messages' = addMessageToChat(messages, "assistant", content,
                                     finalReasoning(ev), reportSections, ev.step)
     /\ queryResults' = handleExecutedQueries(ev.executed_queries, <<>>)
     /\ graphSuggestions' = handleGraphSuggestions(ev.graph_suggestions)
     /\ currentStatus' = None
     /\ isProcessing' = FALSE
     /\ UNCHANGED userId

\* The QueryResult a query_result event builds.
queryResultData(ev) ==
  QueryResult(
    IF Truthy(ev.objective) THEN Get(ev.objective) ELSE <<"Unknown Objective">>,
    IF TruthyStr(ev.query) THEN Get(ev.query) ELSE "Unknown Query",
    IF IsSome(ev.data) THEN Get(ev.data) ELSE <<>>,
    ev.error,
    ev.platform)

\* prev.some(qr => same objective, query and platform)
exists(prev, qrd) == \E i \in 1..Len(prev) : SameTriple(prev[i], qrd)

\* Mutant of FoldQueryResult: a result also ends the turn.
FoldQueryResult_EndsTurn(ev) ==
  /\ ~exists(queryResults, queryResultData(ev)) => Len(queryResults) < MaxResults
  /\ queryResults' = IF ~exists(queryResults, queryResultData(ev))
                       THEN Append(queryResults, queryResultData(ev))
                       ELSE queryResults
  /\ isProcessing' = FALSE
  /\ UNCHANGED <<userId, messages, currentStatus, graphSuggestions>>

\* Mutant of FoldQueryResult: the new result is put at the head of the list.
FoldQueryResult_Prepends(ev) ==
  /\ ~exists(queryResults, queryResultData(ev)) => Len(queryResults) < MaxResults
  /\ queryResults' = IF ~exists(queryResults, queryResultData(ev))
                       THEN <<queryResultData(ev)>> \o queryResults
                       ELSE queryResults
  /\ UNCHANGED <<userId, messages, currentStatus, isProcessing, graphSuggestions>>

\* case 'query_result'
FoldQueryResult(ev) ==
  /\ ~exists(queryResults, queryResultData(ev)) => Len(queryResults) < MaxResults
  /\ queryResults' = IF ~exists(queryResults, queryResultData(ev))
                       THEN Append(queryResults, queryResultData(ev))
                       ELSE queryResults
  /\ UNCHANGED <<userId, messages, currentStatus, isProcessing, graphSuggestions>>

\* Mutant of FoldIgnored: the ignored event clears the status string.
FoldIgnored_ClearsStatus(ev) ==
  /\ currentStatus' = None
  /\ UNCHANGED <<userId, messages, queryResults, isProcessing, graphSuggestions>>

\* case 'routing_decision' and default
FoldIgnored(ev) ==
  UNCHANGED <<userId, messages, queryResults, currentStatus, isProcessing,
              graphSuggestions>>

\* Mutant of FoldError: the error entry is appended but the turn is not ended.
FoldError_KeepsProcessing(ev) ==
  /\ Room(1)
  /\ messages' = addMessageToChat(messages, "system",
        <<"**Error (">>
          \o (IF Truthy(ev.step) THEN Get(ev.step) ELSE <<"Unknown Step">>)
          \o <<"):** ">>
          \o (IF IsSome(ev.message) THEN Get(ev.message) ELSE <<"undefined">>),
        None, None, None)
  /\ currentStatus' = None
  /\ UNCHANGED <<userId, queryResults, isProcessing, graphSuggestions>>

\* case 'error'
FoldError(ev) ==
  LET errorMsg ==
        <<"**Error (">>
          \o (IF Truthy(ev.step) THEN Get(ev.step) ELSE <<"Unknown Step">>)
          \o <<"):** ">>
          \o (IF IsSome(ev.message) THEN Get(ev.message) ELSE <<"undefined">>)
          \o (IF Truthy(ev.details)
                THEN <<" [details: ">> \o Get(ev.details) \o <<"]">>
                ELSE <<>>)
  IN /\ Room(1)
     /\ messages' = addMessageToChat(messages, "system", errorMsg, None, None, None)
     /\ currentStatus' = None
     /\ isProcessing' = FALSE
     /\ UNCHANGED <<userId, queryResults, graphSuggestions>>

\* switch (type)
FoldEvent(ev) ==
  CASE ev.type = "connection_established" -> FoldConnectionEstablished(ev)
    [] ev.type = "status" -> FoldStatus(ev)
    [] ev.type = "classifier_info" -> FoldClassifierInfo(ev)
    [] ev.type = "classifier_answer" -> FoldClassifierAnswer(ev)
    [] ev.type = "reasoning_summary" -> FoldReasoningSummary(ev)
    [] ev.type = "final_insight" -> FoldFinalInsight(ev)
    [] ev.type = "final_recommendation" -> FoldFinalRecommendation(ev)
    [] ev.type = "query_result" -> FoldQueryResult(ev)
    [] ev.type = "error" -> FoldError(ev)
    [] OTHER -> FoldIgnored(ev)

\* useEffect on [lastJsonMessage]: the effect folds the last delivered event.
Fold ==
  /\ effectPending
  /\ IsSome(lastJsonMessage)
  /\ FoldEvent(Get(lastJsonMessage))
  /\ effectPending' = FALSE
  /\ UNCHANGED <<readyState, lastJsonMessage, inflight>>
  /\ Observe("fold", lastJsonMessage)

\* ---------------------------------------------------------- sendMessage
\* Mutant of parseUserMessageWithContext: the context is not trimmed.
parseUserMessageWithContext_NoTrim(message) ==
  IF Includes(message, displayContextStartMarker) /\ Includes(message, queryStartMarker)
    THEN
      LET queryStartIndex == IndexOf(message, queryStartMarker, 0) + 1
          displayContextStartIndex ==
            IndexOf(message, displayContextStartMarker, 0) + 1
          displayContextEndIndex ==
            IndexOf(message, displayContextEndMarker, displayContextStartIndex)
          displayContextString ==
            Substring(message, displayContextStartIndex, displayContextEndIndex)
      IN [userMessageContent |->
            Trim(Substring(message, queryStartIndex, Len(message))),
          contextMessageToAdd |->
            IF /\ displayContextEndIndex # -1
               /\ displayContextEndIndex > displayContextStartIndex
               /\ displayContextString # <<>>
              THEN Some(displayContextString)
              ELSE None]
    ELSE [userMessageContent |-> message, contextMessageToAdd |-> None]

\* parseUserMessageWithContext: the user entry's content and the content of the
\* context_info entry to add (None when there is none).  Offsets count tokens,
\* a marker being one token long.  The catch branch is left out: indexOf,
\* substring and trim do not throw on a string.
parseUserMessageWithContext(message) ==
  IF Includes(message, displayContextStartMarker) /\ Includes(message, queryStartMarker)
    THEN
      LET queryStartIndex == IndexOf(message, queryStartMarker, 0) + 1
          displayContextStartIndex ==
            IndexOf(message, displayContextStartMarker, 0) + 1
          displayContextEndIndex ==
            IndexOf(message, displayContextEndMarker, displayContextStartIndex)
          displayContextString ==
            Trim(Substring(message, displayContextStartIndex, displayContextEndIndex))
      IN [userMessageContent |->
            Trim(Substring(message, queryStartIndex, Len(message))),
          contextMessageToAdd |->
            IF /\ displayContextEndIndex # -1
               /\ displayContextEndIndex > displayContextStartIndex
               /\ displayContextString # <<>>
              THEN Some(displayContextString)
              ELSE None]
    ELSE [userMessageContent |-> message, contextMessageToAdd |-> None]

\* The entries an accepted sendMessage appends to transcript prev.
newMessages(prev, parsed) ==
  IF IsSome(parsed.contextMessageToAdd)
    THEN <<ChatMessage(generateId(prev), "context_info",
                       Get(parsed.contextMessageToAdd)),
           ChatMessage(generateId(prev) + 1, "user", parsed.userMessageContent)>>
    ELSE <<ChatMessage(generateId(prev), "user", parsed.userMessageContent)>>

\* Mutant of SendNotOpen: the rejected send also clears the status string.
SendNotOpen_ClearsStatus ==
  /\ messages' = addMessageToChat(messages, "system",
        <<"Error: Cannot connect to assistant. Backend connection is closed.">>,
        None, None, None)
  /\ isProcessing' = FALSE
  /\ currentStatus' = None
  /\ UNCHANGED <<userId, queryResults, graphSuggestions, inflight>>

\* sendMessage: channel not OPEN.
SendNotOpen ==
  /\ messages' = addMessageToChat(messages, "system",
        <<"Error: Cannot connect to assistant. Backend connection is closed.">>,
        None, None, None)
  /\ isProcessing' = FALSE
  /\ UNCHANGED <<userId, queryResults, currentStatus, graphSuggestions, inflight>>

\* sendMessage: no user ID yet.
SendNoUserId ==
  /\ messages' = addMessageToChat(messages, "system",
        <<"Error: Connection established, but user ID not received yet.">>,
        None, None, None)
  /\ isProcessing' = FALSE
  /\ UNCHANGED <<userId, queryResults, currentStatus, graphSuggestions, inflight>>

\* sendMessage: if (!message.trim()) return;
SendBlank ==
  UNCHANGED <<userId, messages, queryResults, currentStatus, isProcessing,
              graphSuggestions, inflight>>

\* Mutant of SendAccepted: the TabularResult list is not cleared.
SendAccepted_KeepsResults(message) ==
  /\ messages' = messages \o newMessages(messages, parseUserMessageWithContext(message))
  /\ graphSuggestions' = <<>>
  /\ currentStatus' = Some(<<"Thinking...">>)
  /\ isProcessing' = TRUE
  /\ inflight' = Append(inflight, [message |-> message, userId |-> Get(userId)])
  /\ UNCHANGED <<userId, queryResults>>

\* sendMessage past its guards, up to and including the call of fetch.
SendAccepted(message) ==
  /\ messages' = messages \o newMessages(messages, parseUserMessageWithContext(message))
  /\ queryResults' = <<>>
  /\ graphSuggestions' = <<>>
  /\ currentStatus' = Some(<<"Thinking...">>)
  /\ isProcessing' = TRUE
  /\ inflight' = Append(inflight, [message |-> message, userId |-> Get(userId)])
  /\ UNCHANGED userId

\* Mutant of SendBranch: the text is tested for emptiness without trimming.
SendBranch_NoTrim(message) ==
  IF readyState # "OPEN" THEN "notOpen"
  ELSE IF ~Truthy(userId) THEN "noUserId"
  ELSE IF message = <<>> THEN "blank"
  ELSE "accepted"

\* Mutant of SendBranch: the state of the channel is not tested.
SendBranch_IgnoresReadyState(message) ==
  IF ~Truthy(userId) THEN "noUserId"
  ELSE IF Trim(message) = <<>> THEN "blank"
  ELSE "accepted"

\* The branch sendMessage(message) takes.
SendBranch(message) ==
  IF readyState # "OPEN" THEN "notOpen"
  ELSE IF ~Truthy(userId) THEN "noUserId"
  ELSE IF Trim(message) = <<>> THEN "blank"
  ELSE "accepted"

\* sendMessage(message)
SendMessage(message) ==
  /\ CASE SendBranch(message) = "notOpen" -> SendNotOpen
       [] SendBranch(message) = "noUserId" -> SendNoUserId
       [] SendBranch(message) = "blank" -> SendBlank
       [] OTHER -> SendAccepted(message)
  /\ Len(messages') <= 1 + MaxMsgs
  /\ Len(inflight') <= MaxInflight
  /\ UNCHANGED <<readyState, lastJsonMessage, effectPending>>
  /\ Observe("send", Some(message))

\* ------------------------------------------- the HTTP acknowledgement
RemoveAt(q, i) == [j \in 1..(Len(q) - 1) |-> IF j < i THEN q[j] ELSE q[j + 1]]

\* A response with !response.ok; shown is errorData.detail || errorData.error
\* || response.statusText.
HttpNotOk(i, shown) ==
  /\ i \in 1..Len(inflight)
  /\ Room(1)
  /\ inflight' = RemoveAt(inflight, i)
  /\ messages' = addMessageToChat(messages, "system",
        <<"Error sending message to agent: ">> \o shown, None, None, None)
  /\ currentStatus' = None
  /\ isProcessing' = FALSE
  /\ UNCHANGED <<readyState, userId, queryResults, graphSuggestions,
                 lastJsonMessage, effectPending>>
  /\ Observe("httpNotOk", Some(inflight[i]))

\* Mutant of HttpOk: the turn is ended whether or not a tool was called.
HttpOk_AlwaysEnds(i, agentAckData) ==
  /\ i \in 1..Len(inflight)
  /\ Truthy(agentAckData.response) => Room(1)
  /\ inflight' = RemoveAt(inflight, i)
  /\ messages' = IF Truthy(agentAckData.response)
                   THEN addMessageToChat(messages, "assistant",
                                         Get(agentAckData.response), None, None, None)
                   ELSE messages
  /\ currentStatus' = None
  /\ isProcessing' = FALSE
  /\ UNCHANGED <<readyState, userId, queryResults, graphSuggestions,
                 lastJsonMessage, effectPending>>
  /\ Observe("httpOk", Some(agentAckData))

\* Mutant of HttpOk: a body that flags a tool call sets processing to true.
HttpOk_ToolCallStartsTurn(i, agentAckData) ==
  /\ i \in 1..Len(inflight)
  /\ Truthy(agentAckData.response) => Room(1)
  /\ inflight' = RemoveAt(inflight, i)
  /\ messages' = IF Truthy(agentAckData.response)
                   THEN addMessageToChat(messages, "assistant",
                                         Get(agentAckData.response), None, None, None)
                   ELSE messages
  /\ currentStatus' = IF agentAckData.tool_called
                        THEN Some(<<"Agent processing workflow...">>)
                        ELSE None
  /\ isProcessing' = agentAckData.tool_called
  /\ UNCHANGED <<readyState, userId, queryResults, graphSuggestions,
                 lastJsonMessage, effectPending>>
  /\ Observe("httpOk", Some(agentAckData))

\* A 2xx response whose body is agentAckData = {response?, tool_called?}.
HttpOk(i, agentAckData) ==
  /\ i \in 1..Len(inflight)
  /\ Truthy(agentAckData.response) => Room(1)
  /\ inflight' = RemoveAt(inflight, i)
  /\ messages' = IF Truthy(agentAckData.response)
                   THEN addMessageToChat(messages, "assistant",
                                         Get(agentAckData.response), None, None, None)
                   ELSE messages
  /\ currentStatus' = IF agentAckData.tool_called
                        THEN Some(<<"Agent processing workflow...">>)
                        ELSE None
  /\ isProcessing' = IF agentAckData.tool_called THEN isProcessing ELSE FALSE
  /\ UNCHANGED <<readyState, userId, queryResults, graphSuggestions,
                 lastJsonMessage, effectPending>>
  /\ Observe("httpOk", Some(agentAckData))

\* Mutant of HttpFailed: the catch block appends the entry and clears the
\* status but leaves processing as it was.
HttpFailed_KeepsProcessing(i) ==
  /\ i \in 1..Len(inflight)
  /\ Room(1)
  /\ inflight' = RemoveAt(inflight, i)
  /\ messages' = addMessageToChat(messages, "system",
        <<"Error: ", "Network error connecting to the agent.">>, None, None, None)
  /\ currentStatus' = None
  /\ UNCHANGED <<readyState, userId, queryResults, isProcessing,
                 graphSuggestions, lastJsonMessage, effectPending>>
  /\ Observe("httpFailed", Some(inflight[i]))

\* fetch (or the parse of a 2xx body) threw: the catch block.
HttpFailed(i) ==
  /\ i \in 1..Len(inflight)
  /\ Room(1)
  /\ inflight' = RemoveAt(inflight, i)
  /\ messages' = addMessageToChat(messages, "system",
        <<"Error: ", "Network error connecting to the agent.">>, None, None, None)
  /\ currentStatus' = None
  /\ isProcessing' = FALSE
  /\ UNCHANGED <<readyState, userId, queryResults, graphSuggestions,
                 lastJsonMessage, effectPending>>
  /\ Observe("httpFailed", Some(inflight[i]))

\* ---------------------------------------------------------------- inputs
row1 == [a |-> Num(1), b |-> Num(2)]

Q1 == <<"Q1">>
Q2 == <<"Q2">>
stepGenerate == <<"generate", "_", "queries">>
stepExecute == <<"execute", "_", "queries">>

evConnection ==
  [WebSocketMessage("connection_established") EXCEPT !.user_id = Some(<<"u1">>)]
evStatusGenerate ==
  [WebSocketMessage("status") EXCEPT
     !.step = Some(stepGenerate), !.status = Some(<<"completed">>),
     !.generated_queries = Some(<<[objective |-> Q1, query |-> "SELECT 1"]>>)]
evStatusRunning ==
  [WebSocketMessage("status") EXCEPT
     !.step = Some(stepExecute), !.status = Some(<<"in", "_", "progress">>)]
evWorkflowEnd ==
  [WebSocketMessage("status") EXCEPT
     !.step = Some(<<"insight", "_", "workflow", "_", "end">>),
     !.status = Some(<<"completed">>)]
evClassifierInfo ==
  [WebSocketMessage("classifier_info") EXCEPT !.content = Some(<<"Let me look.">>)]
evClassifierAnswer ==
  [WebSocketMessage("classifier_answer") EXCEPT !.content = Some(<<"It is 42.">>)]
evReasoning ==
  [WebSocketMessage("reasoning_summary") EXCEPT
     !.step = Some(stepGenerate), !.reasoning = Some(<<"because">>)]
evReasoningNoMatch ==
  [WebSocketMessage("reasoning_summary") EXCEPT
     !.step = Some(stepExecute), !.reasoning = Some(<<"because">>)]
evQueryResult(objective, platform) ==
  [WebSocketMessage("query_result") EXCEPT
     !.objective = Some(objective), !.query = Some("SELECT 1"),
     !.data = Some(<<row1>>), !.platform = platform]
barNested ==
  [BackendSuggestion EXCEPT
     !.objective = Some(Q1), !.type = Some("bar"),
     !.columns = Some(Columns(Some("a"), Some(YStr("b"))))]
evFinalInsight ==
  [WebSocketMessage("final_insight") EXCEPT
     !.insight = Some(<<"Revenue is up">>),
     !.graph_suggestions = Some(<<barNested>>)]
evFinalInsightBulk ==
  [WebSocketMessage("final_insight") EXCEPT
     !.executed_queries =
        Some(<<ExecutedQuery(Some("google"), Some(Q1), Some("SELECT 1"), Some(<<row1>>)),
               ExecutedQuery(Some("google"), Some(Q1), Some("SELECT 1"), Some(<<row1>>))>>)]
evFinalInsightEmptyData ==
  [WebSocketMessage("final_insight") EXCEPT
     !.executed_queries =
        Some(<<ExecutedQuery(Some("google"), Some(Q2), Some("SELECT 2"), Some(<<>>)),
               ExecutedQuery(Some("facebook"), None, None, Some(<<row1>>))>>)]
evFinalRecommendation ==
  [WebSocketMessage("final_recommendation") EXCEPT
     !.report_sections = Some(<<[title |-> <<"Budget">>, content |-> <<"Spend less">>]>>)]
evFinalRecommendationBulk ==
  [WebSocketMessage("final_recommendation") EXCEPT
     !.graph_suggestions = Some(<<barNested>>),
     !.executed_queries =
        Some(<<ExecutedQuery(None, None, None, None),
               ExecutedQuery(Some("facebook"), None, None, Some(<<row1>>))>>)]
evRouting == WebSocketMessage("routing_decision")
evError ==
  [WebSocketMessage("error") EXCEPT !.message = Some(<<"Query failed">>)]
evUnknown == WebSocketMessage("graph_suggestions")

\* The events the channel delivers in Spec.
Events ==
  {evConnection, evStatusGenerate, evStatusRunning, evWorkflowEnd,
   evClassifierInfo, evClassifierAnswer, evReasoning, evReasoningNoMatch,
   evQueryResult(Q1, None), evFinalInsight, evFinalRecommendationBulk,
   evRouting, evError, evUnknown}

\* The texts sendMessage is called with in Spec.
Texts ==
  {<<"show", WS, "revenue">>, <<WS>>,
   <<displayContextStartMarker, "Filtered", displayContextEndMarker,
     queryStartMarker, "show">>}

\* The bodies of a 2xx acknowledgement.
Acks ==
  {[response |-> None, tool_called |-> TRUE],
   [response |-> Some(<<"Starting.">>), tool_called |-> TRUE],
   [response |-> Some(<<"On it.">>), tool_called |-> FALSE],
   [response |-> None, tool_called |-> FALSE]}

\* ------------------------------------------------------- specification
\* One step of the hook: a channel callback, a delivery, the message effect,
\* a call of sendMessage, or the answer to an outstanding HTTP request; the
\* events come from events, the texts from texts.
Step(events, texts) ==
  \/ OnOpen /\ ClampEffect
  \/ OnClose /\ ClampEffect
  \/ OnError /\ ClampEffect
  \/ Reconnect /\ ClampEffect
  \/ \E ev \in events : Deliver(ev) /\ ClampEffect
  \/ Fold /\ ClampEffect
  \/ \E message \in texts : SendMessage(message) /\ ClampEffect
  \/ \E i \in 1..MaxInflight : HttpNotOk(i, <<"Bad Gateway">>) /\ ClampEffect
  \/ \E i \in 1..MaxInflight, agentAckData \in Acks :
       HttpOk(i, agentAckData) /\ ClampEffect
  \/ \E i \in 1..MaxInflight : HttpFailed(i) /\ ClampEffect

Next == Step(Events, Texts)

Spec == Init /\ [][Next]_vars

\* The events that build, replace and clear the TabularResult list.
ResultEvents ==
  {evConnection, evQueryResult(Q1, None), evQueryResult(Q1, Some("google")),
   evQueryResult(Q2, Some("google")), evFinalInsight, evFinalInsightBulk,
   evFinalInsightEmptyData, evFinalRecommendation, evFinalRecommendationBulk}

NextResults == Step(ResultEvents, {<<"show", WS, "revenue">>})

SpecResults == Init /\ [][NextResults]_vars

\* The column names of the chart events, the empty name among them.
ColumnNames == {"", "date"}
\* The y roles of the chart events: one name, or an array of names.
YRoles ==
  {YStr(""), YStr("revenue"), YArr(<<>>), YArr(<<"revenue", "cost">>)}

\* One suggestion with its roles nested under columns, one with the same
\* roles flat, alike otherwise.
nestedSuggestion(x, y) ==
  [BackendSuggestion EXCEPT
     !.objective = Some(Q1), !.type = Some("line"), !.title = Some(<<"Trend">>),
     !.columns = Some(Columns(Some(x), Some(y)))]
flatSuggestion(x, y) ==
  [BackendSuggestion EXCEPT
     !.objective = Some(Q1), !.type = Some("line"), !.title = Some(<<"Trend">>),
     !.x_axis = Some(x), !.y_axis = Some(y)]
evCharts(type, x, y) ==
  [WebSocketMessage(type) EXCEPT
     !.insight = Some(<<"Revenue is up">>),
     !.graph_suggestions = Some(<<nestedSuggestion(x, y), flatSuggestion(x, y)>>)]

\* The events that carry chart suggestions in both shapes.
ChartEvents ==
  {evConnection} \cup
  {evCharts(type, x, y) :
     type \in {"final_insight", "final_recommendation"},
     x \in ColumnNames, y \in YRoles}

NextCharts == Step(ChartEvents, {<<"show", WS, "revenue">>})

SpecCharts == Init /\ [][NextCharts]_vars

\* A data row for the pie suggestions: cost is not one of its columns.
pieRow == [region |-> Str("US"), revenue |-> Num(10)]
\* A pie suggestion with its roles flat; a role that is None is not named.
pieSuggestion(names, values) ==
  [BackendSuggestion EXCEPT
     !.objective = Some(Q1), !.type = Some("pie"), !.title = Some(<<"Share">>),
     !.names = names, !.values = values]
evPie(names, values) ==
  [WebSocketMessage("final_insight") EXCEPT
     !.insight = Some(<<"Revenue is up">>),
     !.graph_suggestions = Some(<<pieSuggestion(names, values)>>)]
\* A query_result with rows and, when error is given, an error of its own.
evRows(error) ==
  [WebSocketMessage("query_result") EXCEPT
     !.objective = Some(Q1), !.query = Some("SELECT 1"),
     !.data = Some(<<pieRow>>), !.error = error]

\* The events that give the viewer pie suggestions and rows to plot.
PieEvents ==
  {evConnection, evRows(None), evRows(Some(<<"timeout">>))} \cup
  {evPie(names, values) :
     names \in {None, Some("region"), Some("cost")},
     values \in {None, Some("revenue"), Some("cost")}}

NextPie == Step(PieEvents, {<<"show", WS, "revenue">>})

SpecPie == Init /\ [][NextPie]_vars

\* Status events of completed steps: query generation without a list of
\* queries, a generation step that is not about queries, query execution, and
\* a step of no milestone kind.
evStatusGenerateNoList ==
  [WebSocketMessage("status") EXCEPT
     !.step = Some(stepGenerate), !.status = Some(<<"completed">>)]
evStatusGenerateReport ==
  [WebSocketMessage("status") EXCEPT
     !.step = Some(<<"generate", "_", "report">>),
     !.status = Some(<<"completed">>),
     !.generated_queries = Some(<<[objective |-> Q1, query |-> "SELECT 1"]>>)]
evStatusExecute ==
  [WebSocketMessage("status") EXCEPT
     !.step = Some(stepExecute), !.status = Some(<<"completed">>)]
evStatusRouting ==
  [WebSocketMessage("status") EXCEPT
     !.step = Some(<<"routing">>), !.status = Some(<<"completed">>)]
\* A final_insight event that names the step of query generation.
evFinalInsightStep ==
  [WebSocketMessage("final_insight") EXCEPT
     !.insight = Some(<<"Revenue is up.">>), !.step = Some(stepGenerate)]

\* The events of the workflow steps: status, reasoning and a final answer.
StatusEvents ==
  {evConnection, evStatusGenerate, evStatusGenerateNoList,
   evStatusGenerateReport, evStatusExecute, evStatusRouting, evStatusRunning,
   evWorkflowEnd, evReasoning, evFinalInsightStep}

NextStatus == Step(StatusEvents, {<<"show", WS, "revenue">>})

SpecStatus == Init /\ [][NextStatus]_vars

\* Classifier events whose content is whitespace only, and without content.
evClassifierInfoBlank ==
  [WebSocketMessage("classifier_info") EXCEPT !.content = Some(<<WS, WS>>)]
evClassifierInfoMissing == WebSocketMessage("classifier_info")
evClassifierAnswerBlank ==
  [WebSocketMessage("classifier_answer") EXCEPT !.content = Some(<<WS>>)]
evClassifierAnswerMissing == WebSocketMessage("classifier_answer")

\* The events of the classifier, and a status event that sets the status line.
ClassifierEvents ==
  {evConnection, evStatusRunning, evQueryResult(Q1, None),
   evClassifierInfo, evClassifierInfoBlank, evClassifierInfoMissing,
   evClassifierAnswer, evClassifierAnswerBlank, evClassifierAnswerMissing}

NextClassifier == Step(ClassifierEvents, {<<"show", WS, "revenue">>})

SpecClassifier == Init /\ [][NextClassifier]_vars

\* Final events with an empty list of suggestions and with two suggestions.
evFinalInsightNoCharts ==
  [WebSocketMessage("final_insight") EXCEPT
     !.insight = Some(<<"Nothing to plot">>), !.graph_suggestions = Some(<<>>)]
evFinalRecommendationCharts ==
  [WebSocketMessage("final_recommendation") EXCEPT
     !.graph_suggestions =
        Some(<<pieSuggestion(Some("region"), Some("revenue")),
               [BackendSuggestion EXCEPT !.type = Some("line"),
                                         !.title = Some(<<"Trend">>)]>>)]

\* The events that replace the ChartSuggestion list, with and without
\* suggestions, and events of the other kinds.
SuggestionEvents ==
  {evConnection, evStatusRunning, evQueryResult(Q1, None), evClassifierAnswer,
   evError, evFinalInsight, evFinalInsightNoCharts, evFinalInsightBulk,
   evFinalRecommendation, evFinalRecommendationCharts}

NextSuggestions == Step(SuggestionEvents, {<<"show", WS, "revenue">>, <<WS>>})

SpecSuggestions == Init /\ [][NextSuggestions]_vars

\* The five column roles, each naming a column or not named (None).
RoleSets ==
  {[x |-> Some("date"), y |-> Some(YStr("revenue")), names |-> None,
    values |-> None, color |-> None],
   [x |-> Some("date"), y |-> Some(YArr(<<"revenue", "cost">>)), names |-> None,
    values |-> None, color |-> Some("region")],
   [x |-> None, y |-> None, names |-> Some("region"),
    values |-> Some("revenue"), color |-> None],
   NoColumns}
\* A suggestion with the roles nested under columns, and one with them flat.
rolesNested(type, roles) ==
  [BackendSuggestion EXCEPT
     !.objective = Some(Q1), !.type = Some(type), !.title = Some(<<"Share">>),
     !.columns = Some(roles)]
rolesFlat(type, roles) ==
  [BackendSuggestion EXCEPT
     !.objective = Some(Q1), !.type = Some(type), !.title = Some(<<"Share">>),
     !.x_axis = roles.x, !.y_axis = roles.y, !.names = roles.names,
     !.values = roles.values, !.color_column = roles.color]
evRoles(type, roles) ==
  [WebSocketMessage("final_insight") EXCEPT
     !.insight = Some(<<"Revenue is up">>),
     !.graph_suggestions =
        Some(<<rolesNested(type, roles), rolesFlat(type, roles)>>)]

\* The events that carry the column roles in both shapes.
RoleEvents ==
  {evConnection, evRows(None)} \cup
  {evRoles(type, roles) : type \in {"bar", "pie"}, roles \in RoleSets}

SpecRoles == Init /\ [][Step(RoleEvents, {<<"show", WS, "revenue">>})]_vars

\* The types a suggestion is given as type and as chart_type; None: not given.
RawTypes == {None, Some("image"), Some("none"), Some("bar")}
ChartTypes == <<None, Some("image"), Some("none"), Some("line")>>
typedSuggestion(type, chart_type) ==
  [BackendSuggestion EXCEPT
     !.objective = Some(Q1), !.type = type, !.chart_type = chart_type,
     !.title = Some(<<"Trend">>), !.description = Some(<<"By day">>),
     !.image_base64 = Some("png"), !.x_axis = Some("a"),
     !.y_axis = Some(YStr("b"))]
\* One suggestion of the type for each chart_type.
evTypes(type) ==
  [WebSocketMessage("final_insight") EXCEPT
     !.insight = Some(<<"Revenue is up">>),
     !.graph_suggestions =
        Some([i \in 1..Len(ChartTypes) |-> typedSuggestion(type, ChartTypes[i])])]

\* The events that carry suggestions of every type and chart_type.
TypeEvents ==
  {evConnection, evQueryResult(Q1, None)} \cup {evTypes(type) : type \in RawTypes}

SpecTypes == Init /\ [][Step(TypeEvents, {<<"show", WS, "revenue">>})]_vars

\* Image suggestions: one that refers to objective Q2 through its
\* original_suggestion while its own objective is Q1, one whose
\* original_suggestion has no reference and whose title holds Q2, one without
\* original_suggestion whose title is held by an objective, one with a title
\* that matches nothing, and one without title.
imageSuggestion(original_suggestion, title) ==
  [BackendSuggestion EXCEPT
     !.objective = Some(Q1), !.type = Some("image"), !.title = title,
     !.image_base64 = Some("png"), !.original_suggestion = original_suggestion]
evMatchImages ==
  [WebSocketMessage("final_insight") EXCEPT
     !.insight = Some(<<"Revenue is up">>),
     !.graph_suggestions =
        Some(<<imageSuggestion(Some([data_source_objective |-> Some(Q2)]),
                               Some(<<"Trend">>)),
               imageSuggestion(Some([data_source_objective |-> None]),
                               Some(<<"Q2", "trend">>)),
               imageSuggestion(None, Some(<<"google">>)),
               imageSuggestion(None, Some(<<"Trend">>)),
               imageSuggestion(None, None)>>)]
\* Plot suggestions: with an objective that results hold, with one that no
\* result holds, and without objective but with data_source_objective Q2.
plotSuggestion(objective, data_source_objective) ==
  [BackendSuggestion EXCEPT
     !.objective = objective, !.type = Some("bar"),
     !.title = Some(<<"Q2", "trend">>),
     !.data_source_objective = data_source_objective,
     !.x_axis = Some("a"), !.y_axis = Some(YStr("b"))]
evMatchPlots ==
  [WebSocketMessage("final_recommendation") EXCEPT
     !.graph_suggestions =
        Some(<<plotSuggestion(Some(Q2), None),
               plotSuggestion(Some(<<"Q9">>), None),
               plotSuggestion(None, Some(Q2))>>)]

\* The events that give the matcher suggestions and results to choose from:
\* two results hold Q2 in their objective.
MatchEvents ==
  {evConnection, evQueryResult(Q1, None), evQueryResult(<<"google", "Q2">>, None),
   evQueryResult(Q2, None), evMatchImages, evMatchPlots}

SpecMatch == Init /\ [][Step(MatchEvents, {<<"show", WS, "revenue">>})]_vars

\* First rows for the bar, line and scatter suggestions: every value truthy,
\* the number 0 under a, the empty string under a.
BarRows ==
  {[a |-> Num(1), b |-> Num(2)], [a |-> Num(0), b |-> Num(2)],
   [a |-> Str(""), b |-> Num(2)]}
evBarRows(row) ==
  [WebSocketMessage("query_result") EXCEPT
     !.objective = Some(Q1), !.query = Some("SELECT 1"),
     !.data = Some(<<row, [a |-> Num(3), b |-> Num(4)]>>)]
\* Suggestions of the type whose x is a and whose y is b, b first of a list,
\* an empty list, a column the rows do not have, or not named.
barSuggestion(type, x, y) ==
  [BackendSuggestion EXCEPT
     !.objective = Some(Q1), !.type = Some(type), !.title = Some(<<"Trend">>),
     !.x_axis = x, !.y_axis = y]
evBars(type) ==
  [WebSocketMessage("final_insight") EXCEPT
     !.insight = Some(<<"Revenue is up">>),
     !.graph_suggestions =
        Some(<<barSuggestion(type, Some("a"), Some(YStr("b"))),
               barSuggestion(type, Some("a"), Some(YArr(<<"b", "c">>))),
               barSuggestion(type, Some("a"), Some(YArr(<<>>))),
               barSuggestion(type, Some("a"), Some(YStr("c"))),
               barSuggestion(type, None, Some(YStr("b")))>>)]

\* The events that give the viewer bar, line and scatter suggestions and rows.
BarEvents ==
  {evConnection} \cup {evBarRows(row) : row \in BarRows}
    \cup {evBars(type) : type \in {"bar", "line", "scatter"}}

SpecBars == Init /\ [][Step(BarEvents, {<<"show", WS, "revenue">>})]_vars

\* The events that lengthen, shorten and empty the two lists the explorer
\* pages through.
ExplorerEvents ==
  {evConnection, evQueryResult(Q1, None), evQueryResult(Q2, Some("google")),
   evFinalInsight, evMatchPlots}

NextExplorer ==
  \/ Step(ExplorerEvents, {<<"show", WS, "revenue">>})
  \/ handleNextTable
  \/ handlePrevTable
  \/ handleNextGraph
  \/ handlePrevGraph

SpecExplorer == Init /\ [][NextExplorer]_vars

\* The tokens of the texts of SpecParse: the three markers, whitespace, a word.
Tokens ==
  {displayContextStartMarker, displayContextEndMarker, queryStartMarker, WS, "a"}

AllTexts == UNION {[1..n -> Tokens] : n \in 0..MaxTextLen}

\* The first call of sendMessage in a session.
FirstSend(texts) ==
  /\ messages = <<initMessage>>
  /\ \E message \in texts : SendMessage(message)

\* A session up to the acknowledgement of its first message, the text of
\* which is any text of at most MaxTextLen tokens.
NextParse ==
  \/ OnOpen /\ ClampEffect
  \/ Deliver(evConnection) /\ ClampEffect
  \/ Fold /\ ClampEffect
  \/ FirstSend(AllTexts) /\ ClampEffect
  \/ \E i \in 1..MaxInflight, agentAckData \in Acks :
       HttpOk(i, agentAckData) /\ ClampEffect

SpecParse == Init /\ [][NextParse]_vars

\* ================================================================ claims
\* What the observers say of the step that led to the current state.
Folded(type) == op.kind = "fold" /\ Get(op.arg).type = type
FoldedEvent == Get(op.arg)
Sent == op.kind = "send"
SentText == Get(op.arg)
\* The guards of sendMessage, read off the state before the call.
ChannelOpenBefore == pre.readyState = "OPEN"
SessionBefore == pre.userId # None /\ Get(pre.userId) # <<>>
NonBlank(t) == \E i \in 1..Len(t) : t[i] # WS
AcceptedSend == Sent /\ ChannelOpenBefore /\ SessionBefore /\ NonBlank(SentText)
\* The entries the step appended to the transcript; the entries before it are
\* required to be untouched.
AppendedExactly(n) ==
  /\ Len(messages) = Len(pre.messages) + n
  /\ \A i \in 1..Len(pre.messages) : messages[i] = pre.messages[i]
Appended(k) == messages[Len(pre.messages) + k]
\* The positions of the TabularResult list that hold the triple of result r.
Holding(r) == {i \in 1..Len(queryResults) : SameTriple(queryResults[i], r)}

\* C1: after folding a query_result event, whatever the list was before, the
\* TabularResult list holds exactly one entry with the event's (objective,
\* query, platform) triple.
C1_ExactlyOneEntryForTriple ==
  Folded("query_result") =>
    Cardinality(Holding(
      QueryResult(Get(FoldedEvent.objective), Get(FoldedEvent.query), <<>>, None,
                  FoldedEvent.platform))) = 1

\* C2: in every reachable state no two entries of the TabularResult list share
\* the same (objective, query, platform) triple.
C2_NoTwoEntriesShareTriple ==
  \A i, j \in 1..Len(queryResults) :
    i # j => ~SameTriple(queryResults[i], queryResults[j])

\* The indices of the elements of executed_queries that carry data, in order.
RECURSIVE WithData(_, _)
WithData(eqs, i) ==
  IF i > Len(eqs) THEN <<>>
  ELSE (IF eqs[i].data # None THEN <<i>> ELSE <<>>) \o WithData(eqs, i + 1)
FoldedBulk ==
  /\ Folded("final_insight") \/ Folded("final_recommendation")
  /\ FoldedEvent.executed_queries # None

\* C3: after a final_insight or final_recommendation event that carries an
\* executed_queries array, the TabularResult list is exactly the results built
\* from the array's elements that carry data, in array order: entry k has the
\* rows and platform of the k-th such element, and its objective and query or
\* their defaults; nothing of the list before the event is kept.
C3_BulkReplacesList ==
  FoldedBulk =>
    LET eqs == Get(FoldedEvent.executed_queries)
        kept == WithData(eqs, 1)
    IN /\ Len(queryResults) = Len(kept)
       /\ \A k \in 1..Len(kept) :
            LET e == eqs[kept[k]]
                r == queryResults[k]
            IN /\ r.dataframe = Get(e.data)
               /\ r.platform = e.platform
               /\ r.objective = IF e.objective \in {None, Some(<<>>)}
                                  THEN <<"Executed Query ", ToString(kept[k])>>
                                  ELSE Get(e.objective)
               /\ r.query = IF e.query \in {None, Some("")} THEN "N/A"
                            ELSE Get(e.query)

\* C3 witness: a bulk event was folded over a non-empty list none of whose
\* entries is in the non-empty list that replaced it.
C3_Witness ==
  /\ FoldedBulk
  /\ pre.queryResults # <<>>
  /\ queryResults # <<>>
  /\ \A i \in 1..Len(pre.queryResults), j \in 1..Len(queryResults) :
       pre.queryResults[i] # queryResults[j]

\* C4: an accepted sendMessage leaves, in the very state it produces, the
\* TabularResult and ChartSuggestion lists empty and processing true, with the
\* user entry appended last and its HTTP request issued and not yet answered.
C4_SendResetsSynchronously ==
  AcceptedSend =>
    /\ queryResults = <<>>
    /\ graphSuggestions = <<>>
    /\ isProcessing
    /\ Len(messages) > Len(pre.messages)
    /\ messages[Len(messages)].role = "user"
    /\ Len(inflight) = Len(pre.inflight) + 1
    /\ inflight[Len(inflight)].message = SentText

\* C4 witness: a message was accepted while both lists were non-empty and the
\* machine was idle.
C4_Witness ==
  /\ AcceptedSend
  /\ pre.queryResults # <<>>
  /\ pre.graphSuggestions # <<>>
  /\ ~pre.isProcessing

\* The transcript before the step holds a milestone entry with this step.
MilestoneBefore(step) ==
  \E i \in 1..Len(pre.messages) :
    pre.messages[i].role = "milestone" /\ pre.messages[i].step = step

\* C5: a reasoning_summary event whose step matches no existing milestone
\* entry leaves the transcript unchanged.
C5_UnmatchedReasoningIsNoOp ==
  (Folded("reasoning_summary") /\ ~MilestoneBefore(FoldedEvent.step))
    => messages = pre.messages

\* C5 witness: such an event, carrying reasoning, was folded while the
\* transcript held a milestone entry of another step.
C5_Witness ==
  /\ Folded("reasoning_summary")
  /\ FoldedEvent.reasoning # None
  /\ ~MilestoneBefore(FoldedEvent.step)
  /\ \E i \in 1..Len(pre.messages) : pre.messages[i].role = "milestone"

\* The event folded carried two suggestions, the first with the roles x and y
\* nested under columns and the second with the same roles flat.
FoldedNestedAndFlat(x, y) ==
  /\ (Folded("final_insight") \/ Folded("final_recommendation"))
  /\ FoldedEvent.graph_suggestions =
       Some(<<nestedSuggestion(x, y), flatSuggestion(x, y)>>)
\* Both suggestions reach the viewer as the same plot form with columns {x, y}.
SamePlotForm(x, y) ==
  /\ Len(graphSuggestions) = 2
  /\ finalGraphSuggestionForViewer(Some(graphSuggestions[1])) =
       finalGraphSuggestionForViewer(Some(graphSuggestions[2]))
  /\ IsSome(finalGraphSuggestionForViewer(Some(graphSuggestions[1])))
  /\ Get(finalGraphSuggestionForViewer(Some(graphSuggestions[1]))).columns =
       Some([NoColumns EXCEPT !.x = Some(x), !.y = Some(y)])

\* C6: a suggestion with its x and y roles nested under columns and one with
\* the same roles flat as x_axis / y_axis are normalised to the identical plot
\* form with columns {x, y}, for every pair of column names.
C6_NestedAndFlatNormaliseAlike ==
  \A x \in ColumnNames, y \in YRoles :
    FoldedNestedAndFlat(x, y) => SamePlotForm(x, y)

\* C6 for names that are not empty: the two shapes are normalised to the
\* identical plot form with columns {x, y}.
C6_NamedRolesNormaliseAlike ==
  \A x \in ColumnNames \ {""}, y \in YRoles \ {YStr("")} :
    FoldedNestedAndFlat(x, y) => SamePlotForm(x, y)

\* C6 witness: an event with both shapes of the roles x = date, y = revenue
\* was folded and two suggestions are held.
C6_Witness ==
  /\ FoldedNestedAndFlat("date", YStr("revenue"))
  /\ Len(graphSuggestions) = 2

\* C7: a final_insight event without executed_queries appends exactly one
\* assistant entry (holding the insight text the event carries), leaves the
\* TabularResult list as it was, sets the ChartSuggestion list to one
\* suggestion per suggestion of the event, each with that suggestion's type,
\* title and objective, and leaves processing false.
C7_InsightWithoutBulk ==
  (Folded("final_insight") /\ FoldedEvent.executed_queries = None) =>
    LET given == IF FoldedEvent.graph_suggestions = None THEN <<>>
                 ELSE Get(FoldedEvent.graph_suggestions)
    IN /\ AppendedExactly(1)
       /\ Appended(1).role = "assistant"
       /\ FoldedEvent.insight \notin {None, Some(<<>>)}
            => Appended(1).content = Get(FoldedEvent.insight)
       /\ queryResults = pre.queryResults
       /\ Len(graphSuggestions) = Len(given)
       /\ \A i \in 1..Len(given) :
            /\ graphSuggestions[i].type = given[i].type
            /\ graphSuggestions[i].title = given[i].title
            /\ given[i].objective \notin {None, Some(<<>>)}
                 => graphSuggestions[i].objective = given[i].objective
       /\ ~isProcessing

\* C7 witness: the event was folded during a turn, over a list built by an
\* earlier query_result event, and carried an insight and a suggestion.
C7_Witness ==
  /\ Folded("final_insight")
  /\ FoldedEvent.executed_queries = None
  /\ FoldedEvent.insight # None
  /\ FoldedEvent.graph_suggestions # None
  /\ pre.isProcessing
  /\ pre.queryResults # <<>>
  /\ pre.graphSuggestions = <<>>

\* C8: sendMessage while the channel is not OPEN, or while the session
\* identifier is absent, appends exactly one system entry and changes nothing
\* else: both lists, the status string and the outstanding requests are as
\* before, and processing is false.
C8_RejectedSend ==
  (Sent /\ (~ChannelOpenBefore \/ ~SessionBefore)) =>
    /\ AppendedExactly(1)
    /\ Appended(1).role = "system"
    /\ queryResults = pre.queryResults
    /\ graphSuggestions = pre.graphSuggestions
    /\ currentStatus = pre.currentStatus
    /\ inflight = pre.inflight
    /\ ~isProcessing

\* C8 witness: a send was rejected on a closed channel while results and a
\* status string were held.
C8_Witness ==
  /\ Sent
  /\ ~ChannelOpenBefore
  /\ pre.queryResults # <<>>
  /\ pre.currentStatus # None

\* C9 as stated: sendMessage with blank text on an open channel with a session
\* appends one system entry and changes nothing else.
C9_BlankSendSurfacesError ==
  (Sent /\ ChannelOpenBefore /\ SessionBefore /\ ~NonBlank(SentText)) =>
    /\ AppendedExactly(1)
    /\ Appended(1).role = "system"

\* C9 amended: sendMessage with blank text on an open channel with a session
\* changes nothing at all: no entry is appended, no request is issued, and the
\* lists, the status string, the processing flag and the session identifier
\* are as before.
C9_BlankSendIsNoOp ==
  (Sent /\ ChannelOpenBefore /\ SessionBefore /\ ~NonBlank(SentText)) =>
    /\ messages = pre.messages
    /\ queryResults = pre.queryResults
    /\ graphSuggestions = pre.graphSuggestions
    /\ currentStatus = pre.currentStatus
    /\ isProcessing = pre.isProcessing
    /\ userId = pre.userId
    /\ inflight = pre.inflight

\* C9 witness: a whitespace-only text was sent during a turn.
C9_Witness ==
  /\ Sent /\ ChannelOpenBefore /\ SessionBefore
  /\ SentText # <<>> /\ ~NonBlank(SentText)
  /\ pre.isProcessing
  /\ pre.currentStatus # None

\* The sent text has the marked form: a context-start marker at i, a
\* context-end marker at j and a query-start marker at k, in this order, and
\* no other marker before the query-start marker.
Markers == {displayContextStartMarker, displayContextEndMarker, queryStartMarker}
MarkedAt(t, i, j, k) ==
  /\ i < j /\ j < k
  /\ t[i] = displayContextStartMarker
  /\ t[j] = displayContextEndMarker
  /\ t[k] = queryStartMarker
  /\ \A q \in 1..(k - 1) : q \notin {i, j} => t[q] \notin Markers
Between(t, i, j) == [q \in 1..(j - i - 1) |-> t[i + q]]
After(t, k) == [q \in 1..(Len(t) - k) |-> t[k + q]]
\* The two entries of the claim: the trimmed context, then the trimmed query.
ContextThenUser(t, i, j, k) ==
  /\ AppendedExactly(2)
  /\ Appended(1).role = "context_info"
  /\ Appended(1).content = Trim(Between(t, i, j))
  /\ Appended(2).role = "user"
  /\ Appended(2).content = Trim(After(t, k))

\* C10 as stated: an accepted sendMessage whose text has the marked form with a
\* non-empty context appends the context_info entry and then the user entry.
C10_ContextThenUser ==
  AcceptedSend =>
    \A i, j, k \in 1..Len(SentText) :
      (MarkedAt(SentText, i, j, k) /\ Between(SentText, i, j) # <<>>)
        => ContextThenUser(SentText, i, j, k)

\* C10 amended: an accepted sendMessage whose text has the marked form with a
\* context that is not blank (non-empty once trimmed) appends exactly two
\* entries: a context_info entry holding the trimmed text between the context
\* markers, then a user entry holding the trimmed text after the query-start
\* marker.
C10_NonBlankContextThenUser ==
  AcceptedSend =>
    \A i, j, k \in 1..Len(SentText) :
      (MarkedAt(SentText, i, j, k) /\ NonBlank(Between(SentText, i, j)))
        => ContextThenUser(SentText, i, j, k)

\* C10 witness: a text of the marked form with a word as context and a word
\* as query was accepted and two entries were appended.
C10_Witness ==
  /\ AcceptedSend
  /\ \E i, j, k \in 1..Len(SentText) :
       /\ MarkedAt(SentText, i, j, k)
       /\ NonBlank(Between(SentText, i, j))
       /\ NonBlank(After(SentText, k))
  /\ Len(messages) = Len(pre.messages) + 2

\* The step was a call of sendMessage that issued a chat request.
IssuedRequest == Sent /\ Len(inflight) = Len(pre.inflight) + 1

\* C11: sendMessage issues a chat request only while the channel is OPEN and
\* the session identifier is present, and the request carries that identifier.
C11_RequestOnlyWhenOpenWithSession ==
  /\ (Sent /\ inflight # pre.inflight) => IssuedRequest
  /\ IssuedRequest =>
       /\ pre.readyState = "OPEN" /\ readyState = "OPEN"
       /\ Truthy(pre.userId) /\ userId = pre.userId
       /\ inflight[Len(inflight)].userId = Get(pre.userId)

\* C11 witness: a request was issued in a session in which an earlier
\* sendMessage had been rejected because the channel was not OPEN.
C11_Witness ==
  /\ IssuedRequest
  /\ \E i \in 1..Len(messages) :
       /\ messages[i].role = "system"
       /\ messages[i].content =
            <<"Error: Cannot connect to assistant. Backend connection is closed.">>

\* The events the state machine classifies as terminal.
TerminalEvent(ev) ==
  \/ ev.type \in {"final_insight", "final_recommendation", "classifier_answer",
                  "error"}
  \/ ev.type = "status" /\ IsSome(ev.step) /\ EndsWithWorkflowEnd(Get(ev.step))
\* The step folded a terminal event (an error event among them).
TerminalFold == op.kind = "fold" /\ TerminalEvent(FoldedEvent)
\* The step was a failed HTTP acknowledgement: a non-2xx answer or a throw.
FailedAck == op.kind \in {"httpNotOk", "httpFailed"}
\* The step was a 2xx acknowledgement that does not flag a tool call.
PlainAck == op.kind = "httpOk" /\ ~Get(op.arg).tool_called
\* The step was the close or the error callback of the channel.
ChannelDown == op.kind \in {"onClose", "onError"}

\* C12 as stated: the processing flag is true exactly while an accepted
\* sendMessage has not yet been followed by a terminal event, an error event or
\* a failed HTTP acknowledgement.  Stated step by step: the flag is true after
\* a step iff the step was an accepted sendMessage, or the flag was true before
\* and the step was none of these.
C12_ProcessingExactlyWhileTurnOutstanding ==
  isProcessing <=>
    \/ AcceptedSend
    \/ pre.isProcessing /\ ~TerminalFold /\ ~FailedAck

\* C12 amended: the processing flag is true exactly while the most recent
\* accepted sendMessage has not yet been followed by a terminal event, an error
\* event, a failed HTTP acknowledgement, a successful acknowledgement that does
\* not flag a tool call, or a close or error of the channel.
C12_ProcessingUntilTurnEndsOrChannelDrops ==
  isProcessing <=>
    \/ AcceptedSend
    \/ pre.isProcessing /\ ~TerminalFold /\ ~FailedAck /\ ~PlainAck /\ ~ChannelDown

\* C12 witness: the channel closed or errored during a turn and the flag went
\* from true to false.
C12_Witness == ChannelDown /\ pre.isProcessing /\ ~isProcessing

\* C13: folding a terminal event (final_insight, final_recommendation,
\* classifier_answer, error, or a status event whose step ends with
\* workflow_end) leaves the status string absent and processing false,
\* whatever the state before.
C13_TerminalEventEndsTurn ==
  TerminalFold => (currentStatus = None /\ ~isProcessing)

\* C13 witness: a terminal event was folded during a turn, with a status
\* string shown and processing true before it.
C13_Witness ==
  /\ TerminalFold
  /\ pre.isProcessing
  /\ pre.currentStatus # None

\* An entry with its reasoning field left out of the comparison.
WithoutReasoning(m) == [m EXCEPT !.reasoning = None]

\* C14: the transcript is append-only across every operation: the entries
\* held before a step are all still there, at the same positions and with the
\* same id, role, content, step, reportSections and generatedQueries; the
\* reasoning of an entry changes only on a milestone entry and only by folding
\* a reasoning_summary event.
C14_TranscriptAppendOnly ==
  /\ Len(messages) >= Len(pre.messages)
  /\ \A i \in 1..Len(pre.messages) :
       /\ WithoutReasoning(messages[i]) = WithoutReasoning(pre.messages[i])
       /\ messages[i].reasoning # pre.messages[i].reasoning
            => (messages[i].role = "milestone" /\ Folded("reasoning_summary"))

\* C14 witness: a reasoning_summary event attached its reasoning to a
\* milestone entry that is followed by a later entry.
C14_Witness ==
  /\ Folded("reasoning_summary")
  /\ \E i \in 1..(Len(messages) - 1) :
       /\ messages[i].role = "milestone"
       /\ messages[i].reasoning # pre.messages[i].reasoning

\* C15: every event the channel delivers is folded exactly once and in the
\* order of delivery, also when several arrive before the message effect next
\* runs.  The effect folds the last-received value only, once per delivery it
\* sees, so the claim comes to this: no event is delivered while the one
\* delivered before it is still waiting for the effect, since the effect would
\* then never see the earlier one.
C15_EveryDeliveredEventIsFolded ==
  [][op'.kind = "deliver" => ~effectPending]_vars

\* C16: when the HTTP acknowledgement of an accepted sendMessage fails (a
\* non-2xx answer or a network failure), handling it appends exactly one
\* system-role error entry, clears the status string and sets processing to
\* false; the request is no longer outstanding.
C16_FailedAckEndsTurnWithError ==
  FailedAck =>
    /\ AppendedExactly(1)
    /\ Appended(1).role = "system"
    /\ Appended(1).content[1] \in {"Error sending message to agent: ", "Error: "}
    /\ currentStatus = None
    /\ ~isProcessing
    /\ Len(inflight) = Len(pre.inflight) - 1

\* C16 witness: the acknowledgement failed by a network failure while the
\* turn was in progress.
C16_Witness ==
  /\ op.kind = "httpFailed"
  /\ pre.isProcessing
  /\ pre.currentStatus # None

\* The step handled a 2xx acknowledgement; its body.
Acked == op.kind = "httpOk"
AckBody == Get(op.arg)
\* A response text in the body gives exactly one assistant entry with it.
AckResponseShown ==
  Truthy(AckBody.response) =>
    /\ AppendedExactly(1)
    /\ Appended(1).role = "assistant"
    /\ Appended(1).content = Get(AckBody.response)
\* Without a tool call the status is cleared and processing set to false.
AckWithoutToolEndsTurn ==
  ~AckBody.tool_called => (currentStatus = None /\ ~isProcessing)

\* C17 as stated: on a successful acknowledgement a response text is appended
\* as one assistant entry; if the body flags a tool call processing stays true
\* and the working status is set; otherwise the status is cleared and
\* processing set to false.
C17_AckKeepsProcessingTrue ==
  Acked =>
    /\ AckResponseShown
    /\ AckBody.tool_called =>
         (isProcessing /\ currentStatus = Some(<<"Agent processing workflow...">>))
    /\ AckWithoutToolEndsTurn

\* C17 amended: on a successful acknowledgement a response text is appended as
\* one assistant entry and no entry is appended without one; if the body flags
\* a tool call the working status is set and processing is left as it was
\* (true unless the turn was ended, or the channel closed or errored, before
\* the acknowledgement arrived); otherwise the status is cleared and processing
\* set to false.
C17_AckLeavesProcessingOnToolCall ==
  Acked =>
    /\ AckResponseShown
    /\ ~Truthy(AckBody.response) => messages = pre.messages
    /\ AckBody.tool_called =>
         /\ isProcessing = pre.isProcessing
         /\ currentStatus = Some(<<"Agent processing workflow...">>)
    /\ AckWithoutToolEndsTurn

\* C17 witness: an acknowledgement with a response text and a tool call
\* arrived during the turn: the entry is appended and processing is still true.
C17_Witness ==
  /\ Acked
  /\ Truthy(AckBody.response)
  /\ AckBody.tool_called
  /\ pre.isProcessing /\ isProcessing

\* C18: the session identifier is absent until a connection_established
\* event carrying it is folded, and it is absent whenever the channel has
\* closed or errored and no connection_established event has been delivered
\* since.  Events are delivered on an OPEN channel only, so in a state whose
\* channel is not OPEN no event has been delivered since it closed.
C18_SessionAbsentWhileChannelDown ==
  /\ (IsSome(userId) /\ userId # pre.userId) =>
       (Folded("connection_established") /\ FoldedEvent.user_id = userId)
  /\ readyState # "OPEN" => userId = None

\* The sent text carries both the context-start and the query-start marker.
SentMarked ==
  /\ Includes(SentText, displayContextStartMarker)
  /\ Includes(SentText, queryStartMarker)

\* C19: when the sent text contains both the context-start marker and the
\* query-start marker, the message of the outbound request is the text after
\* the query-start marker, the text shown as the user transcript entry.
C19_RequestCarriesParsedQuery ==
  (AcceptedSend /\ SentMarked) =>
    inflight[Len(inflight)].message = messages[Len(messages)].content

\* C20 as stated: whenever the channel closes or errors, a system-role entry
\* is appended to the transcript and processing is false.
C20_ChannelFailureAppendsEntry ==
  ChannelDown =>
    /\ AppendedExactly(1)
    /\ Appended(1).role = "system"
    /\ ~isProcessing

\* C20 amended: whenever the channel closes or errors, the failure is shown
\* in the status string ('Connection closed.' or 'Connection error.'), the
\* transcript is left as it was, the session identifier is cleared and
\* processing is false.
C20_ChannelFailureShownInStatus ==
  ChannelDown =>
    /\ currentStatus =
         Some(IF op.kind = "onClose" THEN <<"Connection closed.">>
              ELSE <<"Connection error.">>)
    /\ messages = pre.messages
    /\ userId = None
    /\ ~isProcessing

\* C20 witness: the channel reported an error during a turn of a session
\* that had its identifier.
C20_Witness ==
  /\ op.kind = "onError"
  /\ pre.isProcessing
  /\ IsSome(pre.userId)
  /\ pre.inflight # <<>>

\* The suggestion at index i as the viewer receives it, and the result it is
\* matched to.
ViewerAt(i) == finalGraphSuggestionForViewer(Some(graphSuggestions[i]))
ResultAt(i) == dataSourceForCurrentGraph(Some(graphSuggestions[i]), queryResults)
\* The suggestion at i is a pie matched to a result with rows, and its names
\* or its values column is not named or is not a column of the first row.
PieWithoutColumns(i) ==
  /\ IsSome(ViewerAt(i)) /\ Get(ViewerAt(i)).type = Some("pie")
  /\ IsSome(ResultAt(i)) /\ Len(Get(ResultAt(i)).dataframe) > 0
  /\ \E role \in {"names", "values"} :
       LET col == Role(Get(ViewerAt(i)).columns, role)
       IN ~IsSome(col) \/ Get(col) \notin DOMAIN Get(ResultAt(i)).dataframe[1]

\* C21 as stated: for a pie suggestion matched to a result with non-empty
\* rows whose names or values column is not named or is missing from the first
\* row, no plot is produced and the unavailable state is rendered.
C21_PieWithoutColumnsIsUnavailable ==
  \A i \in 1..Len(graphSuggestions) :
    PieWithoutColumns(i) =>
      /\ plotParams(ResultAt(i), ViewerAt(i)) = None
      /\ renderGraph(i) = "unavailable"

\* C21 amended: for such a pie suggestion no plot is produced, and the
\* unavailable state is rendered unless the matched result carries an error of
\* its own, in which case the error is rendered instead.
C21_PieWithoutColumnsGivesNoPlot ==
  \A i \in 1..Len(graphSuggestions) :
    PieWithoutColumns(i) =>
      /\ plotParams(ResultAt(i), ViewerAt(i)) = None
      /\ renderGraph(i) =
           IF Truthy(Get(ResultAt(i)).error) THEN "error" ELSE "unavailable"

\* C21 witness: a pie whose values column is cost, which the rows do not
\* have, is matched to a result without error and rendered as unavailable.
C21_Witness ==
  /\ Len(graphSuggestions) = 1
  /\ PieWithoutColumns(1)
  /\ Get(ViewerAt(1)).columns # None
  /\ Role(Get(ViewerAt(1)).columns, "values") = Some("cost")
  /\ ~Truthy(Get(ResultAt(1)).error)
  /\ renderGraph(1) = "unavailable"

IntermediateFold ==
  /\ op.kind = "fold"
  /\ FoldedEvent.type \in {"status", "classifier_info", "reasoning_summary",
                           "query_result", "routing_decision"}
  /\ ~TerminalEvent(FoldedEvent)

\* C23: folding an intermediate event never changes the processing flag.
C23_IntermediateEventKeepsProcessing ==
  IntermediateFold => isProcessing = pre.isProcessing

\* C23 witness: a completed status event that is not the end of the workflow
\* was folded during a turn.
C23_Witness ==
  /\ IntermediateFold
  /\ FoldedEvent.type = "status"
  /\ FoldedEvent.status = Some(<<"completed">>)
  /\ pre.isProcessing /\ isProcessing

\* The event types the switch has a case for.
KnownTypes ==
  {"connection_established", "status", "classifier_info", "classifier_answer",
   "reasoning_summary", "final_insight", "final_recommendation", "query_result",
   "routing_decision", "error"}

\* C24: folding a routing_decision event, or an event of unknown type, leaves
\* transcript, TabularResult list, ChartSuggestion list, status string,
\* processing flag and session identifier unchanged.
C24_IgnoredEventChangesNothing ==
  (op.kind = "fold" /\
     (FoldedEvent.type = "routing_decision" \/ FoldedEvent.type \notin KnownTypes))
    =>
      /\ messages = pre.messages
      /\ queryResults = pre.queryResults
      /\ graphSuggestions = pre.graphSuggestions
      /\ currentStatus = pre.currentStatus
      /\ isProcessing = pre.isProcessing
      /\ userId = pre.userId

\* C24 witness: an event of unknown type was folded during a turn, with a
\* status string shown and a result held.
C24_Witness ==
  /\ op.kind = "fold"
  /\ FoldedEvent.type \notin KnownTypes
  /\ isProcessing
  /\ currentStatus # None
  /\ queryResults # <<>>

\* C25: a final_recommendation event replaces the TabularResult list by the
\* results built from executed_queries when the event has that field, and
\* otherwise leaves the list empty, whatever earlier query_result events had
\* accumulated; either way it appends exactly one assistant entry and ends
\* the turn.
C25_RecommendationReplacesOrClears ==
  Folded("final_recommendation") =>
    /\ AppendedExactly(1)
    /\ Appended(1).role = "assistant"
    /\ currentStatus = None
    /\ ~isProcessing
    /\ FoldedEvent.executed_queries = None => queryResults = <<>>
    /\ FoldedEvent.executed_queries # None =>
         LET eqs == Get(FoldedEvent.executed_queries)
             kept == WithData(eqs, 1)
         IN /\ Len(queryResults) = Len(kept)
            /\ \A k \in 1..Len(kept) :
                 /\ queryResults[k].dataframe = Get(eqs[kept[k]].data)
                 /\ queryResults[k].platform = eqs[kept[k]].platform

\* C25 witness: a final_recommendation event without executed_queries was
\* folded during a turn over a list that held results.
C25_Witness ==
  /\ Folded("final_recommendation")
  /\ FoldedEvent.executed_queries = None
  /\ pre.queryResults # <<>>
  /\ pre.isProcessing
  /\ queryResults = <<>>

\* The indices of the elements of executed_queries whose data is a non-empty
\* array, in order.
RECURSIVE WithRows(_, _)
WithRows(eqs, i) ==
  IF i > Len(eqs) THEN <<>>
  ELSE (IF eqs[i].data \notin {None, Some(<<>>)} THEN <<i>> ELSE <<>>)
         \o WithRows(eqs, i + 1)

\* C26: in bulk processing of executed_queries an element whose data is
\* absent or empty contributes no TabularResult and every element with
\* non-empty data contributes exactly one, with objective 'Executed Query
\* {1-based index}' and query 'N/A' by default: the list has as many entries
\* as there are elements with non-empty data.
C26_OnlyNonEmptyDataContributes ==
  FoldedBulk =>
    LET eqs == Get(FoldedEvent.executed_queries)
        kept == WithRows(eqs, 1)
    IN /\ Len(queryResults) = Len(kept)
       /\ \A k \in 1..Len(kept) :
            LET e == eqs[kept[k]]
                r == queryResults[k]
            IN /\ r.dataframe = Get(e.data)
               /\ r.objective = IF e.objective \in {None, Some(<<>>)}
                                  THEN <<"Executed Query ", ToString(kept[k])>>
                                  ELSE Get(e.objective)
               /\ r.query = IF e.query \in {None, Some("")} THEN "N/A"
                            ELSE Get(e.query)

\* A status event whose step does not end in 'workflow_end' was folded.
FoldedStatusNotEnd ==
  /\ Folded("status")
  /\ ~(IsSome(FoldedEvent.step) /\ EndsWithWorkflowEnd(Get(FoldedEvent.step)))
Completed == FoldedEvent.status = Some(<<"completed">>)
StepHas(word) == IsSome(FoldedEvent.step) /\ Includes(Get(FoldedEvent.step), word)
QueryGeneration == StepHas("generate") /\ StepHas("queries")
\* The step reads generate...queries, execute...queries or ...classification...
StepOfQueriesOrClassification ==
  \/ QueryGeneration
  \/ StepHas("execute") /\ StepHas("queries")
  \/ StepHas("classification")
\* The step holds one of the words generate, execute, classification.
StepOfMilestoneWord ==
  StepHas("generate") \/ StepHas("execute") \/ StepHas("classification")
AppendedMilestone ==
  /\ AppendedExactly(1)
  /\ Appended(1).role = "milestone"
  /\ Appended(1).step = FoldedEvent.step

\* C27: a status event whose step does not end in 'workflow_end' appends a
\* milestone entry if and only if its status is 'completed' and its step reads
\* generate...queries, execute...queries or ...classification...; any other
\* status event appends nothing; the milestone carries the generated-queries
\* list exactly when the step is query generation.
C27_MilestoneIffQueriesOrClassification ==
  FoldedStatusNotEnd =>
    IF Completed /\ StepOfQueriesOrClassification
      THEN /\ AppendedMilestone
           /\ (Appended(1).generatedQueries # None)
                <=> (QueryGeneration /\ FoldedEvent.generated_queries # None)
      ELSE messages = pre.messages

\* C27 as the code has it: the milestone entry is appended if and only if the
\* status is 'completed' and the step holds one of the words generate, execute,
\* classification; the entry carries the event's generated-queries list exactly
\* when the step holds both generate and queries and the event has the list.
C27_MilestoneIffMilestoneWord ==
  FoldedStatusNotEnd =>
    IF Completed /\ StepOfMilestoneWord
      THEN /\ AppendedMilestone
           /\ Appended(1).generatedQueries =
                IF QueryGeneration /\ FoldedEvent.generated_queries # None
                  THEN FoldedEvent.generated_queries ELSE None
      ELSE messages = pre.messages

\* C27 witness: the completed step generate_report, which carries a list of
\* queries, got a milestone entry without the list.
C27_Witness ==
  /\ FoldedStatusNotEnd
  /\ Completed
  /\ StepHas("generate") /\ ~StepHas("queries")
  /\ FoldedEvent.generated_queries # None
  /\ AppendedMilestone
  /\ Appended(1).generatedQueries = None

\* The milestone entries of the step in the transcript before the step.
MilestonesBefore(step) ==
  {i \in 1..Len(pre.messages) :
     pre.messages[i].role = "milestone" /\ pre.messages[i].step = step}

\* C28: a reasoning_summary event sets the reasoning of the last milestone
\* entry that has its step, and of no other entry: earlier milestone entries
\* of the step and entries of other roles with the step are unchanged.
C28_OnlyLastMilestoneGetsReasoning ==
  (/\ Folded("reasoning_summary")
   /\ Truthy(FoldedEvent.reasoning)
   /\ MilestonesBefore(FoldedEvent.step) # {}) =>
    LET hits == MilestonesBefore(FoldedEvent.step)
        last == CHOOSE i \in hits : \A j \in hits : j <= i
    IN /\ Len(messages) = Len(pre.messages)
       /\ \A i \in 1..Len(messages) :
            messages[i] =
              IF i = last
                THEN [pre.messages[i] EXCEPT !.reasoning =
                        Some(<<"**Reasoning:** ">> \o Get(FoldedEvent.reasoning))]
                ELSE pre.messages[i]

\* C28 witness: the event was folded over a transcript with two milestone
\* entries of its step; the later one has the reasoning, the earlier has none.
C28_Witness ==
  /\ Folded("reasoning_summary")
  /\ \E i, j \in MilestonesBefore(FoldedEvent.step) :
       /\ i < j
       /\ messages[i].reasoning = None
       /\ messages[j].reasoning # None

\* C28, second witness: the event was folded over a transcript in which an
\* assistant entry with its step follows the milestone entry of the step.
C28_WitnessOtherRole ==
  /\ Folded("reasoning_summary")
  /\ \E i \in MilestonesBefore(FoldedEvent.step), j \in 1..Len(messages) :
       /\ i < j
       /\ messages[j].role = "assistant"
       /\ messages[j].step = FoldedEvent.step
       /\ messages[j].reasoning = pre.messages[j].reasoning
       /\ messages[i].reasoning # pre.messages[i].reasoning

\* The event folded carries a text that is not blank.
FoldedNonBlankText ==
  IsSome(FoldedEvent.content) /\ NonBlank(Get(FoldedEvent.content))
AppendedAssistantText ==
  /\ AppendedExactly(1)
  /\ Appended(1).role = "assistant"
  /\ Appended(1).content = Get(FoldedEvent.content)
HookStateUnchanged ==
  /\ messages = pre.messages
  /\ queryResults = pre.queryResults
  /\ graphSuggestions = pre.graphSuggestions
  /\ currentStatus = pre.currentStatus
  /\ isProcessing = pre.isProcessing
  /\ userId = pre.userId

\* C29: a classifier_answer event clears the status and ends the turn whether
\* or not it carries text, and appends one assistant entry only when its text
\* is not blank; a classifier_info event with blank or missing text changes
\* nothing, and with text that is not blank appends one assistant entry and
\* sets the planning status without ending the turn.
C29_ClassifierEvents ==
  /\ Folded("classifier_answer") =>
       /\ currentStatus = None
       /\ ~isProcessing
       /\ IF FoldedNonBlankText THEN AppendedAssistantText
                                ELSE messages = pre.messages
  /\ Folded("classifier_info") =>
       IF FoldedNonBlankText
         THEN /\ AppendedAssistantText
              /\ currentStatus = Some(<<"Planning workflow...">>)
              /\ isProcessing = pre.isProcessing
         ELSE HookStateUnchanged

\* C29 witness: a classifier_answer event with whitespace for text was folded
\* during a turn that showed a status line; the turn ended with no new entry.
C29_Witness ==
  /\ Folded("classifier_answer")
  /\ FoldedEvent.content # None
  /\ ~FoldedNonBlankText
  /\ pre.isProcessing
  /\ pre.currentStatus # None
  /\ ~isProcessing
  /\ messages = pre.messages

\* C29, second witness: a classifier_info event with whitespace for text was
\* folded during a turn that showed a status line, and the turn goes on.
C29_WitnessInfo ==
  /\ Folded("classifier_info")
  /\ FoldedEvent.content # None
  /\ ~FoldedNonBlankText
  /\ pre.currentStatus # None
  /\ isProcessing

FoldedFinal == Folded("final_insight") \/ Folded("final_recommendation")
\* The suggestions of the event folded, none when it has no such field.
FoldedSuggestions ==
  IF FoldedEvent.graph_suggestions = None THEN <<>>
  ELSE Get(FoldedEvent.graph_suggestions)

\* C30: the ChartSuggestion list is replaced only by an accepted sendMessage,
\* to empty, and by a final_insight or final_recommendation event, to one
\* suggestion per suggestion of that event in the event's order (to empty when
\* the event has none), nothing of the earlier list remaining; every other
\* step leaves the list unchanged.
C30_SuggestionsReplacedOnlyByTurnStartAndFinalEvents ==
  /\ AcceptedSend => graphSuggestions = <<>>
  /\ (op.kind = "fold" /\ FoldedFinal) =>
       /\ Len(graphSuggestions) = Len(FoldedSuggestions)
       /\ \A k \in 1..Len(FoldedSuggestions) :
            /\ graphSuggestions[k].type = FoldedSuggestions[k].type
            /\ graphSuggestions[k].title = FoldedSuggestions[k].title
            /\ graphSuggestions[k].names = FoldedSuggestions[k].names
            /\ graphSuggestions[k].objective =
                 IF Truthy(FoldedSuggestions[k].objective)
                   THEN FoldedSuggestions[k].objective
                   ELSE Some(<<"Unknown Objective">>)
  /\ ~(AcceptedSend \/ (op.kind = "fold" /\ FoldedFinal)) =>
       graphSuggestions = pre.graphSuggestions

\* C30 witness: a final event with suggestions of its own was folded over a
\* list that held the suggestion of an earlier event.
C30_Witness ==
  /\ op.kind = "fold" /\ FoldedFinal
  /\ pre.graphSuggestions # <<>>
  /\ Len(FoldedSuggestions) = 2
  /\ \A k \in 1..Len(graphSuggestions) :
       \A j \in 1..Len(pre.graphSuggestions) :
         graphSuggestions[k] # pre.graphSuggestions[j]

\* C30, further witnesses: a final event without suggestions emptied a list
\* that held some; an accepted sendMessage did; an event of another kind was
\* folded over a list that held some.
C30_WitnessCleared ==
  /\ op.kind = "fold" /\ FoldedFinal
  /\ FoldedEvent.graph_suggestions = None
  /\ pre.graphSuggestions # <<>>
  /\ graphSuggestions = <<>>
C30_WitnessSend ==
  AcceptedSend /\ pre.graphSuggestions # <<>> /\ graphSuggestions = <<>>
C30_WitnessKept ==
  /\ Folded("query_result")
  /\ pre.graphSuggestions # <<>>
  /\ graphSuggestions = pre.graphSuggestions

\* The column roles of the plot form.
ColumnRoles == {"x", "y", "names", "values", "color"}
\* The role as the backend suggestion bs supplies it, nested under columns or
\* flat; None when it is supplied in neither shape.
SuppliedRole(bs, role) ==
  IF IsSome(bs.columns) /\ IsSome(Get(bs.columns)[role])
    THEN Get(bs.columns)[role]
  ELSE CASE role = "x" -> bs.x_axis
         [] role = "y" -> bs.y_axis
         [] role = "names" -> bs.names
         [] role = "values" -> bs.values
         [] role = "color" -> bs.color_column

\* C31: for each of the five column roles, a role the backend supplies in
\* either shape, nested under columns or flat, is under the same role in the
\* columns of the normalised plot form, and a role supplied in neither shape
\* is absent from them.
C31_EveryRoleReachesPlotForm ==
  (op.kind = "fold" /\ FoldedFinal) =>
    \A k \in 1..Len(graphSuggestions) :
      LET form == finalGraphSuggestionForViewer(Some(graphSuggestions[k]))
      IN /\ IsSome(form)
         /\ IsSome(Get(form).columns)
         /\ \A role \in ColumnRoles :
              Get(Get(form).columns)[role] =
                SuppliedRole(FoldedSuggestions[k], role)

\* C31 for the roles the hook carries over: x and y in either shape, and
\* names, values and color in the flat shape, reach the plot form.
C31_CarriedRolesReachPlotForm ==
  (op.kind = "fold" /\ FoldedFinal) =>
    \A k \in 1..Len(graphSuggestions) :
      LET form == finalGraphSuggestionForViewer(Some(graphSuggestions[k]))
      IN /\ IsSome(form)
         /\ IsSome(Get(form).columns)
         /\ \A role \in ColumnRoles :
              (role \in {"x", "y"} \/ FoldedSuggestions[k].columns = None) =>
                Get(Get(form).columns)[role] =
                  SuppliedRole(FoldedSuggestions[k], role)

\* The type the normaliser settles on: chart_type when given, else the type.
NormalizedType(raw) == IF raw.chart_type # None THEN raw.chart_type ELSE raw.type

\* C32: the normaliser gives one form per suggestion, decided by type: a raw
\* type 'image' passes through as the image form; otherwise the normalised
\* type is chart_type when present, else the raw type; the normalised type
\* 'none' gives the none form, which carries type and title only; the
\* normalised type 'image' gives no form; any other type gives the plot form.
C32_OneFormPerType ==
  \A k \in 1..Len(graphSuggestions) :
    LET raw == graphSuggestions[k]
        form == finalGraphSuggestionForViewer(Some(raw))
    IN IF raw.type = Some("image")
         THEN /\ IsSome(form)
              /\ Get(form) = [ViewerSuggestion EXCEPT
                                !.type = Some("image"),
                                !.title = raw.title,
                                !.description = raw.description,
                                !.image_base64 = raw.image_base64,
                                !.original_suggestion = raw.original_suggestion]
       ELSE IF NormalizedType(raw) = Some("none")
         THEN /\ IsSome(form)
              /\ Get(form) = [ViewerSuggestion EXCEPT
                                !.type = Some("none"),
                                !.title = raw.title,
                                !.columns = Some(NoColumns)]
       ELSE IF NormalizedType(raw) = Some("image")
         THEN form = None
       ELSE /\ IsSome(form)
            /\ Get(form).type = NormalizedType(raw)
            /\ Get(form).title = raw.title
            /\ Get(form).columns =
                 Some([NoColumns EXCEPT !.x = raw.x_axis, !.y = raw.y_axis])

\* C32 witness: an event was folded whose suggestions of raw type bar have
\* the chart_type image, none and line: the first has no form, the second the
\* none form and the third the plot form of type line.
C32_Witness ==
  /\ op.kind = "fold" /\ FoldedFinal
  /\ \E i, j, k \in 1..Len(graphSuggestions) :
       /\ graphSuggestions[i].type = Some("bar")
       /\ graphSuggestions[i].chart_type = Some("image")
       /\ finalGraphSuggestionForViewer(Some(graphSuggestions[i])) = None
       /\ graphSuggestions[j].type = Some("bar")
       /\ graphSuggestions[j].chart_type = Some("none")
       /\ Get(finalGraphSuggestionForViewer(Some(graphSuggestions[j]))).type
            = Some("none")
       /\ graphSuggestions[k].type = Some("bar")
       /\ graphSuggestions[k].chart_type = Some("line")
       /\ Get(finalGraphSuggestionForViewer(Some(graphSuggestions[k]))).type
            = Some("line")

\* C32, second witness: a suggestion of raw type image with the chart_type
\* line is held, and its form is the image form.
C32_WitnessImage ==
  \E k \in 1..Len(graphSuggestions) :
    /\ graphSuggestions[k].type = Some("image")
    /\ graphSuggestions[k].chart_type = Some("line")
    /\ Get(finalGraphSuggestionForViewer(Some(graphSuggestions[k]))).type
         = Some("image")

\* The objective reference of a suggestion: for an image the one of its
\* original suggestion, for any other its objective or else its
\* data_source_objective; None when there is none.
ObjectiveReference(raw) ==
  IF raw.type = Some("image")
    THEN (IF raw.original_suggestion = None THEN None
          ELSE Get(raw.original_suggestion).data_source_objective)
  ELSE IF raw.objective \notin {None, Some(<<>>)} THEN raw.objective
  ELSE raw.data_source_objective
\* The positions of the results whose objective contains the text t, and of
\* those whose objective contains or is contained in the title.
Containing(t) ==
  {i \in 1..Len(queryResults) : TextIncludes(queryResults[i].objective, t)}
TitleMatches(raw) ==
  {i \in 1..Len(queryResults) :
     \/ TextIncludes(queryResults[i].objective,
                     IF raw.title = None THEN <<>> ELSE Get(raw.title))
     \/ raw.title # None /\ TextIncludes(Get(raw.title), queryResults[i].objective)}
FirstOf(S) == CHOOSE i \in S : \A j \in S : i <= j
\* The result at the first of the positions S, at position 1 when S is empty.
FirstOfElseFirst(S) ==
  Some(queryResults[IF S = {} THEN 1 ELSE FirstOf(S)])

\* C33: the matcher follows the chain in order: an objective reference
\* selects the first result whose objective contains it, else the first
\* result; without a reference the first result whose objective contains or
\* is contained in the title is selected, else the first result; the match is
\* undefined only when the TabularResult list is empty.
C33_MatchFollowsChain ==
  \A k \in 1..Len(graphSuggestions) :
    LET raw == graphSuggestions[k]
        ref == ObjectiveReference(raw)
        match == dataSourceForCurrentGraph(Some(raw), queryResults)
    IN IF queryResults = <<>> THEN match = None
       ELSE IF ref \notin {None, Some(<<>>)}
         THEN match = FirstOfElseFirst(Containing(Get(ref)))
       ELSE match = FirstOfElseFirst(TitleMatches(raw))

\* C33 witness: the list starts with a result whose objective does not hold
\* Q2 and goes on with one whose objective does, and the image suggestion that
\* refers to Q2 through its original suggestion is matched to the second.
C33_Witness ==
  /\ Len(queryResults) = 2
  /\ ~TextIncludes(queryResults[1].objective, Q2)
  /\ TextIncludes(queryResults[2].objective, Q2)
  /\ \E k \in 1..Len(graphSuggestions) :
       /\ graphSuggestions[k].type = Some("image")
       /\ ObjectiveReference(graphSuggestions[k]) = Some(Q2)
       /\ dataSourceForCurrentGraph(Some(graphSuggestions[k]), queryResults)
            = Some(queryResults[2])

\* C33, second witness: both results hold Q2 in their objective and a
\* suggestion without reference whose title holds Q2 is matched to the first.
C33_WitnessTitle ==
  /\ Len(queryResults) = 2
  /\ queryResults[1].objective # queryResults[2].objective
  /\ \A i \in 1..2 : TextIncludes(queryResults[i].objective, Q2)
  /\ \E k \in 1..Len(graphSuggestions) :
       /\ ObjectiveReference(graphSuggestions[k]) = None
       /\ graphSuggestions[k].title = Some(<<"Q2", "trend">>)
       /\ dataSourceForCurrentGraph(Some(graphSuggestions[k]), queryResults)
            = Some(queryResults[1])

\* The suggestion at i is a bar, line or scatter matched to a result with rows.
BarLineScatterWithRows(i) ==
  /\ IsSome(ViewerAt(i))
  /\ Get(ViewerAt(i)).type \in {Some("bar"), Some("line"), Some("scatter")}
  /\ IsSome(ResultAt(i)) /\ Len(Get(ResultAt(i)).dataframe) > 0
\* The x column and the y column (the first of a list) of the suggestion at i
\* are named and are keys of the first row of the matched result.
XAndYAreKeysOfFirstRow(i) ==
  LET columns == Get(Get(ViewerAt(i)).columns)
      row == Get(ResultAt(i)).dataframe[1]
      y == IF columns.y = None THEN None
           ELSE IF Get(columns.y).v = <<>> THEN None
           ELSE Some(Get(columns.y).v[1])
  IN /\ columns.x # None /\ Get(columns.x) \in DOMAIN row
     /\ y # None /\ Get(y) \in DOMAIN row

\* C34: for a bar, line or scatter suggestion matched to a result with
\* non-empty rows a plot is produced whenever the x column and the y column
\* (the first of a list) are named and are keys of the first row, whatever
\* the values under those keys, and no plot is produced when either is not.
C34_PlotIffColumnsAreKeys ==
  \A i \in 1..Len(graphSuggestions) :
    BarLineScatterWithRows(i) =>
      (plotParams(ResultAt(i), ViewerAt(i)) # None <=> XAndYAreKeysOfFirstRow(i))

\* C34 where the first row holds truthy values under both columns: a plot is
\* produced exactly when the two columns are named and are keys of that row.
C34_PlotIffColumnsAreKeysOfTruthyRow ==
  \A i \in 1..Len(graphSuggestions) :
    (/\ BarLineScatterWithRows(i)
     /\ \A col \in DOMAIN Get(ResultAt(i)).dataframe[1] :
          TruthyCell(Get(ResultAt(i)).dataframe[1], col)) =>
      (plotParams(ResultAt(i), ViewerAt(i)) # None <=> XAndYAreKeysOfFirstRow(i))

\* The text t holds the context-start and the query-start marker, and no
\* context-end marker comes after its first context-start marker.
EndMarkerMissingOrOutOfOrder(t) ==
  /\ \E i \in 1..Len(t) : t[i] = displayContextStartMarker
  /\ \E k \in 1..Len(t) : t[k] = queryStartMarker
  /\ ~\E i, j \in 1..Len(t) :
        /\ t[i] = displayContextStartMarker
        /\ \A h \in 1..(i - 1) : t[h] # displayContextStartMarker
        /\ i < j
        /\ t[j] = displayContextEndMarker

\* C35: when the text of an accepted sendMessage holds the context-start and
\* query-start markers but the context-end marker is missing or does not come
\* after the context-start marker, the only entry appended is the user entry
\* and its content is the whole text.
C35_MalformedMarkersKeepWholeText ==
  (AcceptedSend /\ EndMarkerMissingOrOutOfOrder(SentText)) =>
    /\ AppendedExactly(1)
    /\ Appended(1).role = "user"
    /\ Appended(1).content = SentText

\* C35, the part the code keeps: no context_info entry is appended for such a
\* text, and the user entry holds the trimmed text after the first
\* query-start marker.
C35_MalformedMarkersAppendNoContext ==
  (AcceptedSend /\ EndMarkerMissingOrOutOfOrder(SentText)) =>
    /\ AppendedExactly(1)
    /\ Appended(1).role = "user"
    /\ \E k \in 1..Len(SentText) :
         /\ SentText[k] = queryStartMarker
         /\ \A h \in 1..(k - 1) : SentText[h] # queryStartMarker
         /\ Appended(1).content = Trim(After(SentText, k))

\* C36: the processing flag becomes true only through an accepted
\* sendMessage: no fold of an event, channel callback, rejected sendMessage or
\* HTTP acknowledgement changes it from false to true, so once it is false it
\* stays false until the next accepted sendMessage.
C36_ProcessingStartsOnlyOnAcceptedSend ==
  (isProcessing /\ ~pre.isProcessing) => AcceptedSend

\* C36 witness: the acknowledgement of a turn that a terminal event had
\* already ended arrived flagging a tool call, and processing is still false.
C36_Witness ==
  /\ Acked
  /\ AckBody.tool_called
  /\ ~effectPending
  /\ lastJsonMessage # None /\ TerminalEvent(Get(lastJsonMessage))
  /\ readyState = "OPEN" /\ userId # None
  /\ ~pre.isProcessing
  /\ ~isProcessing

\* Before the step the turn of an accepted sendMessage had ended: the
\* transcript holds a user entry, the status string was absent and processing
\* false, on an open channel with its session.
TurnEndedBefore ==
  /\ pre.readyState = "OPEN" /\ readyState = "OPEN"
  /\ pre.userId # None
  /\ pre.currentStatus = None
  /\ ~pre.isProcessing
  /\ \E i \in 1..Len(pre.messages) : pre.messages[i].role = "user"
\* The step folded a status event that is not the end of the workflow, or a
\* classifier_info event.
LateIntermediateFold ==
  IntermediateFold /\ FoldedEvent.type \in {"status", "classifier_info"}

\* C37: once the turn has ended with the status string absent, the status
\* stays absent until the next accepted sendMessage while the channel stays
\* open: neither the fold of a late status or classifier_info event nor a
\* late HTTP acknowledgement sets it again, so no status is shown while
\* processing is false.
C37_StatusStaysAbsentAfterTurn ==
  (TurnEndedBefore /\ (LateIntermediateFold \/ Acked)) =>
    (currentStatus = None /\ ~isProcessing)

\* The race of C37 with the acknowledgement: the last event delivered is a
\* terminal event and has been folded, the channel is open with its session,
\* and the acknowledgement that arrived after it flagged a tool call: the
\* working status is shown while processing is false.
C37_LateAckShowsStatus ==
  /\ Acked /\ AckBody.tool_called
  /\ ~effectPending
  /\ lastJsonMessage # None /\ TerminalEvent(Get(lastJsonMessage))
  /\ TurnEndedBefore
  /\ currentStatus = Some(<<"Agent processing workflow...">>)
  /\ ~isProcessing

\* The race of C37 with a late event: a status event was folded after the
\* turn had ended, and its status line is shown while processing is false.
C37_LateStatusShowsStatus ==
  /\ Folded("status")
  /\ TurnEndedBefore
  /\ currentStatus # None
  /\ ~isProcessing

\* C38: folding a query_result event changes the TabularResult list only:
\* transcript, ChartSuggestion list, status string, processing flag and
\* session identifier are as before, and every result the list held keeps its
\* position and content.
C38_QueryResultChangesResultsOnly ==
  Folded("query_result") =>
    /\ messages = pre.messages
    /\ graphSuggestions = pre.graphSuggestions
    /\ currentStatus = pre.currentStatus
    /\ isProcessing = pre.isProcessing
    /\ userId = pre.userId
    /\ readyState = pre.readyState
    /\ inflight = pre.inflight
    /\ Len(queryResults) >= Len(pre.queryResults)
    /\ \A i \in 1..Len(pre.queryResults) : queryResults[i] = pre.queryResults[i]

\* C38 witness: a query_result event with a new triple was folded during a
\* turn, over a list that held a result, with a status shown.
C38_Witness ==
  /\ Folded("query_result")
  /\ pre.queryResults # <<>>
  /\ Len(queryResults) = Len(pre.queryResults) + 1
  /\ pre.isProcessing
  /\ pre.currentStatus # None

\* C40: every ChartSuggestion of the list has a non-empty objective, a
\* missing one having been replaced by 'Unknown Objective' when the final
\* event was folded; so for every suggestion that is not an image the matcher
\* takes that objective as its reference and never falls back to the title.
C40_SuggestionsAlwaysHaveObjective ==
  /\ \A k \in 1..Len(graphSuggestions) :
       /\ graphSuggestions[k].objective \notin {None, Some(<<>>)}
       /\ graphSuggestions[k].type # Some("image") =>
            objectiveToMatch(graphSuggestions[k]) = graphSuggestions[k].objective
  /\ (op.kind = "fold" /\ FoldedFinal) =>
       \A k \in 1..Len(FoldedSuggestions) :
         FoldedSuggestions[k].objective \in {None, Some(<<>>)} =>
           graphSuggestions[k].objective = Some(<<"Unknown Objective">>)

\* C40 witness: a plot suggestion that came without objective but with the
\* data_source_objective Q2 is held with the objective 'Unknown Objective',
\* and with a Q2 result second in the list it is matched to the first result.
C40_Witness ==
  /\ Len(queryResults) = 2
  /\ queryResults[1].objective = Q1
  /\ queryResults[2].objective = Q2
  /\ \E k \in 1..Len(graphSuggestions) :
       /\ graphSuggestions[k].type = Some("bar")
       /\ graphSuggestions[k].data_source_objective = Some(Q2)
       /\ graphSuggestions[k].objective = Some(<<"Unknown Objective">>)
       /\ dataSourceForCurrentGraph(Some(graphSuggestions[k]), queryResults)
            = Some(queryResults[1])

\* An index is within a list of the length: 0 <= index <= max(0, length - 1).
InBounds(index, length) ==
  0 <= index /\ index <= (IF length - 1 >= 0 THEN length - 1 ELSE 0)

\* C39: after any sequence of next and previous clicks and of changes to the
\* lengths of the TabularResult and ChartSuggestion lists, once the clamp
\* effect has run the table index and the graph index are within their
\* lists; a click on next gives an index that is not past the last element
\* and a click on previous one that is not below 0.
C39_IndicesWithinLists ==
  /\ InBounds(currentTableIndex, Len(queryResults))
  /\ InBounds(currentGraphIndex, Len(graphSuggestions))
  /\ InBounds(nextIndex(currentTableIndex, Len(queryResults)), Len(queryResults))
  /\ InBounds(nextIndex(currentGraphIndex, Len(graphSuggestions)),
              Len(graphSuggestions))
  /\ prevIndex(currentTableIndex) >= 0
  /\ prevIndex(currentGraphIndex) >= 0

\* C39 witness: the third of three suggestions was shown when a final event
\* with one suggestion was folded, and the graph index was set back to 0.
C39_Witness ==
  /\ op.kind = "fold" /\ FoldedFinal
  /\ Len(pre.graphSuggestions) = 3
  /\ pre.currentGraphIndex = 2
  /\ Len(graphSuggestions) = 1
  /\ currentGraphIndex = 0

\* C39, second witness: a click on next with the last table shown left the
\* table index where it was.
C39_WitnessNext ==
  /\ op.kind = "nextTable"
  /\ Len(queryResults) = 2
  /\ pre.currentTableIndex = 1
  /\ currentTableIndex = 1

====
